---- MODULE Spec2Model ----
(***************************************************************************)
(* Backend v2 of nhl-led-scoreboard: the adaptive poller                   *)
(* (src/src/backend2/poller.py) together with the JSON response cache it   *)
(* uses (src/src/backend2/cache.py).                                       *)
(*                                                                         *)
(* One asyncio task per domain runs _poll_domain_loop.  The event loop is  *)
(* cooperative: a task runs without interruption from one suspension point *)
(* (asyncio.sleep, the HTTP await) to the next.  `running` names the task  *)
(* that is executing synchronous code; every other action waits for it to  *)
(* be None, so the steps of one task between two suspension points are     *)
(* never interleaved with anything else, time included.                    *)
(*                                                                         *)
(* In Next every upstream answers within the instant the request is sent   *)
(* (requests of different tasks still overlap); NextStalled adds requests  *)
(* that stay in flight while the clock moves, NextLifecycle adds           *)
(* stop_polling.                                                           *)
(***************************************************************************)
EXTENDS Integers, Sequences, FiniteSets, TLC

VARIABLES
    endpoints,        \* AdaptivePoller.endpoints: domain -> list of endpoints
    polling_active,   \* AdaptivePoller.polling_active
    session,          \* AdaptivePoller.session is not None
    poll_tasks,       \* the loop tasks created and not yet ended, per domain
    cancel_requested, \* domains whose task was cancelled and has yet to unwind
    stopping,         \* a stop_polling call waits for the tasks to end
    domain_states,    \* AdaptivePoller.domain_states: domain -> DomainState
    rate_limits,      \* AdaptivePoller.rate_limits: source name -> timestamps
    data_callbacks,   \* AdaptivePoller.data_callbacks: domain -> callbacks
    index,            \* JSONCache.index: key -> expiry
    files,            \* the payload file behind each key
    now,              \* time.time()
    pc,               \* where each domain task stands
    attempt,          \* the loop variable of _poll_domain (0-based)
    request,          \* the request in flight, with _poll_endpoint's locals
    poll_result,      \* the PollResult of the cycle
    error_wake,       \* end of the 5 s pause after an exception in the loop
    running,          \* the task executing synchronous code, or None
    \* ---- observations (written, never read, by the program's actions) ----
    cycle,            \* how each domain's latest cycle ended
    before,           \* the DomainState at the start of the latest cycle
    attempts,         \* outcome of every endpoint attempted in that cycle
    notified,         \* callback invocations of that cycle, in order
    admitted,         \* every admission of _check_rate_limit, per source
    last_set,         \* the latest successful cache write of a poll, per key
    polls,            \* number of cycles started, per domain
    stops,            \* number of stop_polling calls that cancelled tasks
    failed_cycles,    \* consecutive cycles that exhausted the endpoints
    primary_failures, \* consecutive fetches of endpoint 0 that failed
    returned,         \* the latest call made on a component directly, with
                      \* its arguments and the value it returned
    \* ---- DataParser and SchemaCache ----
    parsing_rules,    \* parsing_rules['live_game']['nhl_official']
    schema_cache,     \* the fingerprint stored for nhl_official/live_game
    legacy_rules,     \* parsing_rules['live_game']['nhl_legacy']
    legacy_schema,    \* the fingerprint stored for nhl_legacy/live_game
    \* ---- start-up discovery and cache housekeeping ----
    discovery_cache,  \* the JSONCache entry of key 'discovery_results'
    last_cleanup,     \* CacheManager._last_cleanup
    \* ---- the upstreams ----
    healed            \* per domain, the endpoint that from now on succeeds
                      \* whenever it is polled, if any

vars == <<endpoints, polling_active, session, poll_tasks, cancel_requested, stopping,
          stops, domain_states, rate_limits, data_callbacks,
          index, files, now, pc, attempt, request, poll_result, error_wake,
          running, cycle, before, attempts, notified, admitted, last_set,
          polls, failed_cycles, primary_failures, returned,
          parsing_rules, schema_cache, legacy_rules, legacy_schema,
          discovery_cache, last_cleanup, healed>>

-----------------------------------------------------------------------------
(* Bounds of the model *)

MaxPolls == 4          \* cycles a domain may start
MaxStops == 1          \* stop_polling calls that find polling active
MaxAge == 3            \* seconds the clock moves while the cache is called directly
StartTime == 100       \* time.time() when the poller is constructed
NhlRateLimit == 2      \* rate_limit_per_minute configured for the NHL source

(* Program constants *)

FailureThreshold == 3          \* consecutive_failures >= 3
RateWindow == 60               \* current_time - t < 60
ErrorPause == 5                \* asyncio.sleep(5)
RequestTimeout == 30           \* aiohttp.ClientTimeout(total=30)
DefaultRateLimit == 60         \* DataSourceConfig.rate_limit_per_minute
InitialInterval == 60          \* DomainState.current_interval
LiveGameFast == 3
LiveGameSlow == 20
Pregame == 60
Postgame == 300
Offline == 14400
StandingsInterval == 1800
ScheduleInterval == 3600
PlayerStatsInterval == 900
TeamInfoFloor == 3600
FallbackInterval == 300
LiveGameTtl == 30
StandingsTtl == 3600
TeamInfoTtl == 86400
ScheduleTtl == 3600
PlayerStatsTtl == 1800
DefaultTtl == 3600

None == "None"

-----------------------------------------------------------------------------
(* Configuration: the endpoints handed to the poller and the sources of    *)
(* Backend2Config.data_sources.                                            *)

Endpoint(source, url) == [source_name |-> source, url |-> url]

\* DataSourceConfig.name of the sources of the default configuration; the
\* endpoints of a source carry it as source_name
NhlOfficial == "NHL Official API"
Espn == "ESPN API"
LocalBackup == "Local Backup"

\* The endpoint dictionaries the poller is constructed with.
\* One domain with a primary, a secondary and a local file:
FallbackEndpoints ==
    [d \in {"live_game"} |->
        << Endpoint(NhlOfficial, "https://nhl/score/now"),
           Endpoint(Espn, "https://espn/scoreboard"),
           Endpoint(LocalBackup, "file://backup.json") >>]

\* One domain with a single networked endpoint, and a domain for which
\* discovery found no endpoint:
SingleEndpoints ==
    [d \in {"live_game", "schedule"} |->
        IF d = "live_game" THEN << Endpoint(NhlOfficial, "https://nhl/score") >>
        ELSE << >>]

\* Two domains served by the same source:
SharedEndpoints ==
    [d \in {"live_game", "standings"} |->
        IF d = "live_game" THEN << Endpoint(NhlOfficial, "https://nhl/scores") >>
        ELSE << Endpoint(NhlOfficial, "https://nhl/standings") >>]

\* Two domains, of which discovery found an endpoint for one:
TwoTaskEndpoints ==
    [d \in {"live_game", "standings"} |->
        IF d = "live_game" THEN << Endpoint(NhlOfficial, "https://nhl/scores") >>
        ELSE << >>]

\* One domain with one endpoint that serves the scoreboard of the day:
ScoreboardEndpoints ==
    [d \in {"live_game"} |-> << Endpoint(NhlOfficial, "https://nhl/scoreboard") >>]

\* Two domains served by different sources:
TwoSourceEndpoints ==
    [d \in {"live_game", "standings"} |->
        IF d = "live_game" THEN << Endpoint(NhlOfficial, "https://nhl/scores") >>
        ELSE << Endpoint(Espn, "https://espn/standings") >>]

Configurations ==
    {FallbackEndpoints, SingleEndpoints, SharedEndpoints, TwoTaskEndpoints,
     TwoSourceEndpoints, ScoreboardEndpoints}

\* endpoint.url.startswith('file://')
IsFileUrl(url) == url = "file://backup.json"

\* config.data_sources flattened in iteration order
DataSources ==
    << [domain |-> "live_game", name |-> NhlOfficial, rate_limit_per_minute |-> NhlRateLimit],
       [domain |-> "live_game", name |-> Espn, rate_limit_per_minute |-> DefaultRateLimit],
       [domain |-> "live_game", name |-> LocalBackup, rate_limit_per_minute |-> DefaultRateLimit],
       [domain |-> "standings", name |-> NhlOfficial, rate_limit_per_minute |-> NhlRateLimit] >>

Sources == {DataSources[i].name : i \in DOMAIN DataSources}

\* the callables handed to register_data_callback, in the order in which
\* they are handed over
Subscribers == << "s1", "s2" >>

\* the callables among them that raise an Exception whenever they are called
RaisingSubscribers == {"s1"}

-----------------------------------------------------------------------------
(* JSON values: the body response.json() decodes and the payload           *)
(* parse_data makes of it.  A value is None, a falsy {} or [], a non-empty *)
(* value that is not a dict, or a non-empty dict; of a dict the model      *)
(* keeps the name of its main array ('games', 'events', 'standings'; None  *)
(* when it has none), the items of that array and whether it carries       *)
(* _source_info.  Every game of the model has gameDate, both teams and a   *)
(* state.                                                                  *)

Game(state, intermission) == [gameState |-> state, inIntermission |-> intermission]

Json(kind, array, items, source_info) ==
    [kind |-> kind, array |-> array, items |-> items, source_info |-> source_info]

NoData == Json("none", None, << >>, FALSE)               \* Python None
PEmpty == Json("empty", None, << >>, FALSE)              \* {}: falsy
PBad   == Json("nondict", None, << >>, FALSE)            \* [1]: truthy, has no .get
PLive  == Json("dict", "games", << Game("LIVE", FALSE) >>, FALSE)
PFut   == Json("dict", "games", << Game("FUT", FALSE) >>, FALSE)
\* an ESPN scoreboard: the array is 'events', the state is status.type.name
PEspn  == Json("dict", "events", << Game("STATUS_SCHEDULED", FALSE) >>, FALSE)
\* an ESPN scoreboard of a day without games
PNoEvents == Json("dict", "events", << >>, FALSE)
\* a dict without the main array, as an error document sent with status 200
POdd   == Json("dict", None, << >>, FALSE)
\* a standings table
\* scoreboards of several games
PBreakAndPlay == Json("dict", "games", << Game("LIVE", TRUE), Game("CRIT", FALSE) >>, FALSE)
PPlay == Json("dict", "games", << Game("FUT", FALSE), Game("LIVE", FALSE) >>, FALSE)
PBreak == Json("dict", "games", << Game("LIVE", TRUE) >>, FALSE)
PDone == Json("dict", "games", << Game("FINAL", FALSE), Game("OFF", FALSE) >>, FALSE)
PPostponed == Json("dict", "games", << Game("PPD", FALSE) >>, FALSE)
PNoGames == Json("dict", "games", << >>, FALSE)
PTable == Json("dict", "standings", << [teamAbbrev |-> "TOR", points |-> 2] >>, FALSE)

\* Python truthiness of a payload
Truthy(data) == data.kind \in {"dict", "nondict"}

\* isinstance(data, dict)
IsDict(data) == data.kind \in {"dict", "empty"}

\* data.get('games', []) of a dict
GamesOf(data) == IF data.array = "games" THEN data.items ELSE << >>

-----------------------------------------------------------------------------
(* DataParser.parse_data *)

\* DataParser.parsing_rules: the rule sets of each domain, in dict order
ParsingRules(d) ==
    CASE d = "live_game" -> << "nhl_official", "espn", "nhl_legacy" >>
      [] d = "standings" -> << "nhl_official", "espn" >>
      [] d = "team_info" -> << "nhl_official", "backup_json" >>
      [] d = "schedule" -> << "nhl_official", "espn" >>
      [] d = "player_stats" -> << "nhl_official" >>
      [] d = "playoffs" -> << "nhl_official", "espn" >>
      [] d = "season_schedule" -> << "nhl_official", "espn" >>
      [] OTHER -> << >>

\* a.lower() in b.lower() or b.lower() in a.lower(), for a source name a
\* and a rule set name b: of the names at hand only "espn" is part of
\* "espn api"
FuzzyMatch(a, b) == a = Espn /\ b = "espn"

\* _get_parsing_rules: the name of the rule set used, or None
GetParsingRules(d, source) ==
    LET names == ParsingRules(d)
        exact == {i \in DOMAIN names : names[i] = source}
        fuzzy == {i \in DOMAIN names : FuzzyMatch(source, names[i])}
    IN IF exact # {} THEN source
       ELSE IF fuzzy # {} THEN names[CHOOSE i \in fuzzy : \A j \in fuzzy : i <= j]
       ELSE None

\* the source path of the rule that names the main array of a rule set
ArrayPath(rules) ==
    CASE rules \in {"nhl_official", "nhl_legacy"} -> "games"
      [] rules = "espn" -> "events"
      [] OTHER -> None

\* _map_espn_status
MapEspnStatus(status) ==
    CASE status = "STATUS_SCHEDULED" -> "FUT"
      [] status = "STATUS_IN_PROGRESS" -> "LIVE"
      [] status = "STATUS_FINAL" -> "FINAL"
      [] status = "STATUS_POSTPONED" -> "PPD"
      [] status = "STATUS_CANCELED" -> "CAN"
      [] OTHER -> status

\* _apply_rules on one item of the main array: the NHL rules copy gameState
\* and clock.inIntermission, the ESPN rules map the status and have no rule
\* for the clock
ApplyItemRules(item, rules) ==
    IF rules = "espn"
    THEN Game(MapEspnStatus(item.gameState), FALSE)
    ELSE Game(item.gameState, item.inIntermission)

\* _is_array_data: the main array of the rule set is a list in the data
IsArrayData(data, rules) == data.kind = "dict" /\ data.array = ArrayPath(rules)

\* _apply_rules and _apply_rules_to_array call each other without end when
\* the main array is an empty list: RecursionError
ApplyRulesRaises(data, rules) == IsArrayData(data, rules) /\ data.items = << >>

\* _apply_rules with _source_info added: the items of the main array
\* normalized one by one under 'games', or, for data without the array, the
\* dict of the rules' defaults
ApplyRules(data, rules) ==
    IF IsArrayData(data, rules)
    THEN Json("dict", "games",
              [i \in DOMAIN data.items |-> ApplyItemRules(data.items[i], rules)],
              TRUE)
    ELSE Json("dict", None, << >>, TRUE)

\* parse_data: the raw data when no rule set is found or normalization
\* raises, else the normalized data
ParseData(raw_data, d, source) ==
    LET rules == GetParsingRules(d, source)
    IN IF rules = None THEN raw_data
       ELSE IF ApplyRulesRaises(raw_data, rules) THEN raw_data
       ELSE ApplyRules(raw_data, rules)

\* _source_info is part of the payload
HasSourceInfo(data) == data.source_info

\* _validate_response_structure / _validate_game_data / _validate_standings_data:
\* the required top-level keys are there
ValidateResponseStructure(data, d) ==
    CASE d \in {"live_game", "schedule"} -> data.kind = "dict" /\ data.array = "games"
      [] d = "standings" -> data.kind = "dict" /\ data.array = "standings"
      [] OTHER -> data.kind \in {"dict", "empty"}

-----------------------------------------------------------------------------
(* Documents, key by key.  For the schema fingerprints and for the rules   *)
(* of the official live_game format a payload is kept field by field: a    *)
(* document maps the key path of each leaf to its value, a key path is     *)
(* the sequence of the names the code joins with '.', and a value carries  *)
(* the name of its Python type.  The dicts between the top and a leaf are  *)
(* the proper prefixes of the leaf paths.  A payload is a document with,   *)
(* if it has the key 'games', the list of game documents under it.         *)

Value(type, repr) == [type |-> type, repr |-> repr]
Str(repr) == Value("str", repr)
Number(repr) == Value("int", repr)
NoValue == Value("NoneType", "None")           \* Python None
DictValue == Value("dict", "{...}")            \* a dict between top and leaf
NoPath == << >>                                \* None where a path is expected

\* the score and sog fields of both teams a game document carries
TeamStats(stats) ==
    CASE stats = "all" ->
             (<<"awayTeam", "score">> :> Number("2")) @@ (<<"awayTeam", "sog">> :> Number("25"))
             @@ (<<"homeTeam", "score">> :> Number("1")) @@ (<<"homeTeam", "sog">> :> Number("28"))
      [] stats = "away_score" -> (<<"awayTeam", "score">> :> Number("2"))
      [] stats = "no_home_sog" ->
             (<<"awayTeam", "score">> :> Number("2")) @@ (<<"awayTeam", "sog">> :> Number("25"))
             @@ (<<"homeTeam", "score">> :> Number("1"))
      [] stats = "text" ->
             (<<"awayTeam", "score">> :> Str("2")) @@ (<<"homeTeam", "score">> :> Str("1"))
      [] OTHER -> << >>

\* one game as the official API sends it: the abbreviation of each team
\* under the key it has in that payload
GameDocument(away_key, home_key, away, state, stats) ==
    (<<"gameDate">> :> Str("2023-10-01")) @@ (<<"gameState">> :> Str(state))
    @@ (<<"awayTeam", away_key>> :> Str(away))
    @@ (<<"homeTeam", home_key>> :> Str("BOS"))
    @@ TeamStats(stats)

\* a payload that is one game, and a payload with a list of games and the
\* date of the day
Landing(document) == [top |-> document, has_games |-> FALSE, games |-> << >>]
ScoreList(games) ==
    [top |-> (<<"gameDate">> :> Str("2023-10-01")), has_games |-> TRUE, games |-> games]

\* well-formed games of the official format, and games in which the
\* abbreviation of one or both teams has moved to the key triCode, or the
\* scores have become text
OfficialGames ==
    { GameDocument("abbrev", "abbrev", g[1], g[2], stats) :
          g \in {<<"TOR", "LIVE">>, <<"MTL", "FUT">>},
          stats \in {"all", "away_score", "none"} }
DriftedGames ==
    { GameDocument("triCode", "abbrev", "TOR", "LIVE", "all"),
      GameDocument("triCode", "triCode", "TOR", "LIVE", "all"),
      GameDocument("abbrev", "abbrev", "TOR", "LIVE", "text") }

MaxGames == 2          \* games in a list

GameLists(games) == UNION { [1..n -> games] : n \in 0..MaxGames }

\* the payloads handed to the parser
OfficialPayloads == { ScoreList(games) : games \in GameLists(OfficialGames) }
GamePayloads ==
    OfficialPayloads
    \cup { ScoreList(<<g>>) : g \in DriftedGames }
    \cup { Landing(g) : g \in OfficialGames \cup DriftedGames }

\* the payloads that are one game
SingleGamePayloads == { Landing(g) : g \in OfficialGames \cup DriftedGames }

\* the order of the keys in the documents of the official API
KeyOrder ==
    << <<"gameDate">>, <<"gameState">>,
       <<"awayTeam">>, <<"awayTeam", "abbrev">>, <<"awayTeam", "triCode">>,
       <<"awayTeam", "score">>, <<"awayTeam", "sog">>,
       <<"homeTeam">>, <<"homeTeam", "abbrev">>, <<"homeTeam", "triCode">>,
       <<"homeTeam", "score">>, <<"homeTeam", "sog">> >>

\* every key of a document, at any depth
KeyPaths(document) ==
    DOMAIN document
    \cup UNION { { SubSeq(p, 1, i) : i \in 1..(Len(p) - 1) } : p \in DOMAIN document }

\* type(value).__name__ of the value under a key
TypeName(document, p) == IF p \in DOMAIN document THEN document[p].type ELSE "dict"

-----------------------------------------------------------------------------
(* SchemaCache and create_schema_fingerprint *)

\* create_schema_fingerprint: the key paths of the data with, of a list,
\* the paths of its first item under '[0]', and the type under each path
CreateSchemaFingerprint(data) ==
    LET top == KeyPaths(data.top)
        list == IF data.has_games THEN { <<"games">> } ELSE {}
        first == IF data.games = << >> THEN {}
                 ELSE { <<"games[0]">> \o p : p \in KeyPaths(data.games[1]) }
        paths == top \cup list \cup first
    IN [ key_paths |-> paths,
         type_signatures |->
             [ p \in paths |->
                 IF p \in top THEN TypeName(data.top, p)
                 ELSE IF p \in list THEN "list"
                 ELSE TypeName(data.games[1], Tail(p)) ] ]

\* the fingerprint of {}
EmptyFingerprint == CreateSchemaFingerprint(Landing(<< >>))

\* get_fingerprint returns None: no file for the source and domain
NoFingerprint == [stored |-> FALSE, fingerprint |-> EmptyFingerprint]
Stored(fingerprint) == [stored |-> TRUE, fingerprint |-> fingerprint]

\* faulty variant: a key whose type changed is not counted
TypeChangesNotCounted(old, new) == {}

\* compare_fingerprints: the keys common to both whose type differs
TypeChanges(old, new) ==
    { k \in old.key_paths \cap new.key_paths :
          old.type_signatures[k] # new.type_signatures[k] }

\* compare_fingerprints.  structural_change_score is changed_keys /
\* total_keys, and 0.0 when there is no key at all: the model keeps the two
\* numbers of the quotient
CompareFingerprints(old, new) ==
    LET new_keys == new.key_paths \ old.key_paths
        removed_keys == old.key_paths \ new.key_paths
        type_changes == TypeChanges(old, new)
        total_keys == Cardinality(old.key_paths \cup new.key_paths)
    IN [ new_keys |-> new_keys,
         removed_keys |-> removed_keys,
         type_changes |-> type_changes,
         changed_keys |-> IF total_keys > 0
                          THEN Cardinality(new_keys) + Cardinality(removed_keys)
                               + Cardinality(type_changes)
                          ELSE 0,
         total_keys |-> total_keys ]

\* faulty variant: any change of the keys counts as drift
AnyChangeIsDrift(changes) == changes.changed_keys > 0

\* structural_change_score > 0.1
DriftDetected(changes) == 10 * changes.changed_keys > changes.total_keys

-----------------------------------------------------------------------------
(* DataParser: the rules of the official live_game format, field by field *)

ParsingRule(source_path, target_path, required, default_value) ==
    [ source_path |-> source_path, target_path |-> target_path,
      required |-> required, default_value |-> default_value ]

\* _get_nhl_official_game_rules, for the fields the documents above have
NhlOfficialGameRules ==
    << ParsingRule(<<"games">>, <<"games">>, TRUE, NoValue),
       ParsingRule(<<"date">>, <<"gameDate">>, FALSE, NoValue),
       ParsingRule(<<"gameDate">>, <<"gameDate">>, TRUE, NoValue),
       ParsingRule(<<"gameState">>, <<"gameState">>, TRUE, NoValue),
       ParsingRule(<<"awayTeam", "abbrev">>, <<"awayTeam", "abbrev">>, TRUE, NoValue),
       ParsingRule(<<"awayTeam", "score">>, <<"awayTeam", "score">>, FALSE, Number("0")),
       ParsingRule(<<"awayTeam", "sog">>, <<"awayTeam", "sog">>, FALSE, Number("0")),
       ParsingRule(<<"homeTeam", "abbrev">>, <<"homeTeam", "abbrev">>, TRUE, NoValue),
       ParsingRule(<<"homeTeam", "score">>, <<"homeTeam", "score">>, FALSE, Number("0")),
       ParsingRule(<<"homeTeam", "sog">>, <<"homeTeam", "sog">>, FALSE, Number("0")) >>

\* a in b, for two key paths written with dots: of the names at hand none
\* is part of another one in the same case, so a is part of b when its
\* names are a run of the names of b
IsInfix(a, b) ==
    \E i \in 0..(Len(b) - Len(a)) : SubSeq(b, i + 1, i + Len(a)) = a

\* path.replace(old, new)
ReplaceIn(path, old, new) ==
    LET i == CHOOSE i \in 0..(Len(path) - Len(old)) :
                 SubSeq(path, i + 1, i + Len(old)) = old
    IN SubSeq(path, 1, i) \o new \o SubSeq(path, i + Len(old) + 1, Len(path))

\* name.lower() in segment.lower(), for the names at hand
NameWithin(name, segment) ==
    \/ segment = name
    \/ <<name, segment>> \in { <<"games", "games[0]">>, <<"games", "gameState">>,
                               <<"date", "gameDate">> }

\* _extract_all_key_paths: the key paths of the data in the order of the
\* keys, a list as its first item under '[0]'
ExtractAllKeyPaths(data) ==
    LET Of(document) == SelectSeq(KeyOrder, LAMBDA p : p \in KeyPaths(document))
        first == IF data.games = << >> THEN << >>
                 ELSE LET item == Of(data.games[1])
                      IN << <<"games[0]">> >>
                         \o [i \in DOMAIN item |-> <<"games[0]">> \o item[i]]
    IN IF data.has_games THEN << <<"games">> >> \o first \o Of(data.top)
       ELSE Of(data.top)

\* _find_alternative_key_path: the first path that ends with the name of
\* the removed key, else the first path that has the name in it
FindAlternativeKeyPath(removed_key, data) ==
    LET key_name == removed_key[Len(removed_key)]
        all_paths == ExtractAllKeyPaths(data)
        exact == { i \in DOMAIN all_paths :
                     /\ all_paths[i][Len(all_paths[i])] = key_name
                     /\ all_paths[i] # removed_key }
        partial == { i \in DOMAIN all_paths :
                       /\ \E j \in DOMAIN all_paths[i] : NameWithin(key_name, all_paths[i][j])
                       /\ all_paths[i] # removed_key }
        First(found) == all_paths[CHOOSE i \in found : \A j \in found : i <= j]
    IN IF exact # {} THEN First(exact)
       ELSE IF partial # {} THEN First(partial)
       ELSE NoPath

\* _get_default_for_target_path, for the target paths of the rules above:
\* 'score' and 'sog' give 0 and 'state' gives "UNKNOWN"; the other targets
\* have none of the words looked for
GetDefaultForTargetPath(target_path) ==
    LET name == target_path[Len(target_path)]
    IN CASE name \in {"score", "sog"} -> Number("0")
         [] name = "gameState" -> Str("UNKNOWN")
         [] OTHER -> NoValue

\* _adapt_rules_for_schema_changes, one rule: a removed key that is part
\* of the source path is replaced by the alternative found for it, or the
\* rule becomes optional.  In the documents above at most one removed key
\* is part of the path of a rule.
AdaptRule(rule, removed_keys, raw_data) ==
    LET hits == { k \in removed_keys : IsInfix(k, rule.source_path) }
    IN IF hits = {} THEN rule
       ELSE LET removed_key == CHOOSE k \in hits : TRUE
                alternative_key == FindAlternativeKeyPath(removed_key, raw_data)
            IN IF alternative_key # NoPath
               THEN [rule EXCEPT !.source_path = ReplaceIn(@, removed_key, alternative_key)]
               ELSE [rule EXCEPT !.required = FALSE,
                                 !.default_value =
                                     IF @ = NoValue
                                     THEN GetDefaultForTargetPath(rule.target_path)
                                     ELSE @]

\* _adapt_rules_for_schema_changes: original_rules.copy() copies the list,
\* not the rules, so the rules of the parser are the ones changed
AdaptRulesForSchemaChanges(original_rules, changes, raw_data) ==
    [ i \in DOMAIN original_rules |->
          AdaptRule(original_rules[i], changes.removed_keys, raw_data) ]

\* _extract_value_by_path on a document
ExtractValueByPath(document, path) ==
    IF path \in DOMAIN document THEN document[path]
    ELSE IF path \in KeyPaths(document) THEN DictValue
    ELSE NoValue

\* faulty variant: the default of the rule is not used
ValueWithoutDefault(document, rule) ==
    ExtractValueByPath(document, rule.source_path)

\* the value a rule gives its target: the value under the source path, or
\* the default of the rule when there is none
RuleValue(document, rule) ==
    LET value == ExtractValueByPath(document, rule.source_path)
    IN IF value = NoValue THEN rule.default_value ELSE value

\* _apply_rules on a single object: each rule in turn sets its target when
\* it has a value, a later rule writing over an earlier one
ApplyRulesToObject(document, rules) ==
    LET set == { i \in DOMAIN rules : RuleValue(document, rules[i]) # NoValue }
        targets == { rules[i].target_path : i \in set }
        Latest(t) == CHOOSE i \in set :
                         /\ rules[i].target_path = t
                         /\ \A j \in set : rules[j].target_path = t => j <= i
    IN [ t \in targets |-> RuleValue(document, rules[Latest(t)]) ]

\* the source paths _apply_rules reports with 'Required field missing'
RequiredMissing(document, rules) ==
    { rules[i].source_path : i \in
          { j \in DOMAIN rules :
                /\ rules[j].required
                /\ ExtractValueByPath(document, rules[j].source_path) = NoValue } }

\* any(indicator in rule.source_path ...): of the names at hand 'games'
\* and 'games[0]' have an array indicator in them
HasArrayIndicator(path) == \E i \in DOMAIN path : path[i] \in {"games", "games[0]"}

\* _is_array_data: a rule with an array indicator names a list of the data
IsArrayOfGames(data, rules) ==
    /\ data.has_games
    /\ \E i \in DOMAIN rules : rules[i].source_path = <<"games">>

\* _apply_rules_to_array: the rules without array indicator applied to the
\* top level, without their defaults, and the rules other than the one of
\* the array applied to each item
ApplyRulesToArray(data, rules) ==
    LET top_rules == SelectSeq(rules, LAMBDA r : ~HasArrayIndicator(r.source_path))
        plain == [ i \in DOMAIN top_rules |->
                       [top_rules[i] EXCEPT !.default_value = NoValue] ]
        item_rules == SelectSeq(rules, LAMBDA r : r.source_path # <<"games">>)
    IN [ top |-> ApplyRulesToObject(data.top, plain),
         has_games |-> TRUE,
         games |-> [ i \in DOMAIN data.games |->
                         ApplyRulesToObject(data.games[i], item_rules) ] ]

\* parse_data once the rules are chosen: _apply_rules and the
\* _source_info that marks the data as normalized, with the required
\* fields reported missing on the way.  With an empty list of games
\* _apply_rules and _apply_rules_to_array call each other without end and
\* the RecursionError makes parse_data return the raw data.
ParseWithRules(raw_data, rules) ==
    IF IsArrayOfGames(raw_data, rules)
    THEN IF raw_data.games = << >>
         THEN [ normalized |-> FALSE, data |-> raw_data, missing |-> {} ]
         ELSE [ normalized |-> TRUE,
                data |-> ApplyRulesToArray(raw_data, rules),
                missing |->
                    UNION { RequiredMissing(raw_data.games[i],
                                SelectSeq(rules, LAMBDA r : r.source_path # <<"games">>)) :
                            i \in DOMAIN raw_data.games } ]
    ELSE [ normalized |-> TRUE,
           data |-> Landing(ApplyRulesToObject(raw_data.top, rules)),
           missing |-> RequiredMissing(raw_data.top, rules) ]

-----------------------------------------------------------------------------
(* What the upstreams answer *)

\* The 200 responses an upstream may give: the decoded body, the ETag and
\* Last-Modified headers, and how the cache write of that response ends:
\* "written"; "untouched" (open() failed); "truncated" (the dump failed
\* after open() emptied the file).
Response(body, etag, last_modified, outcome) ==
    [body |-> body, etag |-> etag, last_modified |-> last_modified,
     outcome |-> outcome]

\* what the server behind each URL may answer with status 200
Upstream(url) ==
    CASE url = "https://nhl/score" ->
            { Response(PLive, "e1", "m1", "written"),
              Response(PFut, "e2", "m1", "written"),
              Response(PBad, None, None, "written"),
              Response(PEmpty, None, "m1", "written"),
              Response(PLive, "e1", None, "untouched"),
              Response(PFut, "e2", "m1", "truncated") }
      [] url = "https://nhl/score/now" ->
            { Response(PLive, "e1", None, "written"),
              Response(PLive, "e1", None, "untouched"),
              Response(PBad, None, None, "written") }
      [] url = "https://espn/scoreboard" ->
            { Response(PEspn, None, None, "written"),
              Response(PNoEvents, None, None, "written"),
              Response(POdd, None, None, "written") }
      [] url = "https://nhl/scoreboard" ->
            { Response(PBreakAndPlay, None, None, "written"),
              Response(PPlay, None, None, "written"),
              Response(PBreak, None, None, "written"),
              Response(PDone, None, None, "written"),
              Response(PFut, None, None, "written"),
              Response(PPostponed, None, None, "written"),
              Response(PNoGames, None, None, "written"),
              Response(PBad, None, None, "written") }
      [] url = "https://espn/standings" ->
            { Response(PTable, None, None, "written") }
      [] url = "https://nhl/scores" ->
            { Response(PLive, "e1", None, "written"),
              Response(PBad, None, None, "written") }
      [] url = "https://nhl/standings" ->
            { Response(PTable, "e2", "m1", "written") }
      [] OTHER -> { }

\* what json.load may read from the local file
FileContents(url) == {PFut, PEmpty}

-----------------------------------------------------------------------------
(* DomainState and PollResult *)

DomainState(d) ==
    [ domain |-> d, last_poll_time |-> 0, last_successful_poll |-> 0,
      current_interval |-> InitialInterval, consecutive_failures |-> 0,
      active_source_index |-> 0, cached_data |-> NoData,
      game_state |-> "UNKNOWN", is_live_game |-> FALSE, intermission |-> FALSE ]

PollResult(success, data, source, url, status, cached) ==
    [ success |-> success, data |-> data, source_name |-> source,
      endpoint_url |-> url, http_status |-> status, cached |-> cached ]

NoResult == PollResult(FALSE, NoData, "", "", 0, FALSE)

-----------------------------------------------------------------------------
(* JSONCache *)

\* cache_key = f"poll:{endpoint.source_name}:{domain}:{poll_url}"
CacheKey(source, d, url) == << "poll", source, d, url >>

\* the key under which discovery caches its results
DiscoveryKeys == {"discovery_results"}

CacheKeys ==
    UNION { UNION { { CacheKey(c[d][i].source_name, d, c[d][i].url) :
                        i \in DOMAIN c[d] } : d \in DOMAIN c } :
            c \in Configurations }

NoIndex == [present |-> FALSE, expires_at |-> 0]
NoFile == [state |-> "missing", data |-> NoData, etag |-> None, last_modified |-> None]
CorruptFile == [state |-> "corrupt", data |-> NoData, etag |-> None, last_modified |-> None]
NoEntry == [hit |-> FALSE, data |-> NoData, etag |-> None, last_modified |-> None]

\* faulty variant: whatever the file holds is returned
CacheGetUnchecked(idx, fls, key, t) ==
    IF ~idx[key].present THEN NoEntry
    ELSE [hit |-> TRUE, data |-> fls[key].data, etag |-> fls[key].etag,
          last_modified |-> fls[key].last_modified]

\* JSONCache.get: the CacheEntry returned, or NoEntry for None
CacheGet(idx, fls, key, t) ==
    IF ~idx[key].present THEN NoEntry
    ELSE IF fls[key].state = "missing" THEN NoEntry
    ELSE IF t > idx[key].expires_at THEN NoEntry
    ELSE IF fls[key].state = "corrupt" THEN NoEntry
    ELSE [hit |-> TRUE, data |-> fls[key].data, etag |-> fls[key].etag,
          last_modified |-> fls[key].last_modified]

\* faulty variant: a miss leaves the index as it is
IndexKeptOnGet(idx, fls, key, t) == idx

\* JSONCache.get: the index after the call (a miss on a stale key removes it)
IndexAfterGet(idx, fls, key, t) ==
    IF idx[key].present /\ ~CacheGet(idx, fls, key, t).hit
    THEN [idx EXCEPT ![key] = NoIndex]
    ELSE idx

\* JSONCache.get: the files after the call (delete() unlinks the file of an
\* expired or unreadable entry)
FilesAfterGet(idx, fls, key, t) ==
    IF idx[key].present /\ fls[key].state # "missing"
       /\ ~CacheGet(idx, fls, key, t).hit
    THEN [fls EXCEPT ![key] = NoFile]
    ELSE fls

\* AdaptivePoller._get_cache_ttl
GetCacheTtl(d) ==
    CASE d = "live_game" -> LiveGameTtl
      [] d = "standings" -> StandingsTtl
      [] d = "team_info" -> TeamInfoTtl
      [] d = "schedule" -> ScheduleTtl
      [] d = "player_stats" -> PlayerStatsTtl
      [] OTHER -> DefaultTtl

\* faulty variant: the file is written without the payload
FilesAfterSetNoPayload(fls, key, data, etag, last_modified) ==
    [fls EXCEPT ![key] = [state |-> "ok", data |-> NoData, etag |-> etag,
                          last_modified |-> last_modified]]

\* JSONCache.set, the write succeeding: the payload file
FilesAfterSet(fls, key, data, etag, last_modified) ==
    [fls EXCEPT ![key] = [state |-> "ok", data |-> data, etag |-> etag,
                          last_modified |-> last_modified]]

\* faulty variant: the expiry of a key that is in the index is kept
IndexKeptOnSet(idx, key, ttl_seconds, t) ==
    IF idx[key].present THEN idx
    ELSE [idx EXCEPT ![key] = [present |-> TRUE, expires_at |-> t + ttl_seconds]]

\* JSONCache.set, the write succeeding: the index entry
IndexAfterSet(idx, key, ttl_seconds, t) ==
    [idx EXCEPT ![key] = [present |-> TRUE, expires_at |-> t + ttl_seconds]]

-----------------------------------------------------------------------------
(* Rate limiting *)

\* _check_rate_limit: the timestamps kept ("older than 1 minute" dropped)
CleanOldEntries(stamps, t) ==
    SelectSeq(stamps, LAMBDA x : t - x < RateWindow)

\* _check_rate_limit: the source_config found by the double loop, as an
\* index into DataSources (0: none); a later domain's match replaces an
\* earlier one
SourceConfig(source) ==
    LET matches == {i \in DOMAIN DataSources : DataSources[i].name = source}
    IN IF matches = {} THEN 0
       ELSE CHOOSE i \in matches : \A j \in matches : j <= i

\* faulty variant: the limit is compared with > instead of >=
CheckRateLimitLoose(stamps, source, t) ==
    LET kept == CleanOldEntries(stamps, t)
        cfg == SourceConfig(source)
    IN ~(cfg # 0 /\ Len(kept) > DataSources[cfg].rate_limit_per_minute)

\* _check_rate_limit: the value returned
CheckRateLimit(stamps, source, t) ==
    LET kept == CleanOldEntries(stamps, t)
        cfg == SourceConfig(source)
    IN ~(cfg # 0 /\ Len(kept) >= DataSources[cfg].rate_limit_per_minute)

\* _check_rate_limit: rate_limits[source_name] after the call
StampsAfterCheck(stamps, source, t) ==
    IF CheckRateLimit(stamps, source, t)
    THEN Append(CleanOldEntries(stamps, t), t)
    ELSE CleanOldEntries(stamps, t)

-----------------------------------------------------------------------------
(* _poll_domain *)

\* faulty variant: the failure count survives a success
ResetIndexOnly(st) == [st EXCEPT !.active_source_index = 0]

\* "Reset to highest priority source on success"
ResetOnSuccess(st) ==
    [st EXCEPT !.active_source_index = 0, !.consecutive_failures = 0]

\* faulty variant: the switch to the fallback source comes one failure early
AllFailedEarly(st, n) ==
    LET failures == st.consecutive_failures + 1
    IN [st EXCEPT
          !.consecutive_failures = failures,
          !.active_source_index =
              IF failures >= 2 /\ st.active_source_index < n - 1
              THEN st.active_source_index + 1
              ELSE st.active_source_index]

\* faulty variant: the switch is not held back at the last endpoint
AllFailedUnguarded(st, n) ==
    LET failures == st.consecutive_failures + 1
    IN [st EXCEPT
          !.consecutive_failures = failures,
          !.active_source_index =
              IF failures >= 3 THEN st.active_source_index + 1
              ELSE st.active_source_index]

\* faulty variant: the count starts again when the source is switched
AllFailedRestartsCount(st, n) ==
    LET failures == st.consecutive_failures + 1
        switch == failures >= 3 /\ st.active_source_index < n - 1
    IN [st EXCEPT
          !.consecutive_failures = IF switch THEN 0 ELSE failures,
          !.active_source_index = IF switch THEN @ + 1 ELSE @]

\* "All endpoints failed - increment failure count and try fallback"
AllFailed(st, n) ==
    LET failures == st.consecutive_failures + 1
    IN [st EXCEPT
          !.consecutive_failures = failures,
          !.active_source_index =
              IF failures >= FailureThreshold /\ st.active_source_index < n - 1
              THEN st.active_source_index + 1
              ELSE st.active_source_index]

\* faulty variant: the last good payload is never served
HardFailure(st) == PollResult(FALSE, NoData, "", "", 0, FALSE)

\* "Return cached data if available", else the failure result
CachedOrFailure(st) ==
    IF Truthy(st.cached_data)
    THEN PollResult(TRUE, st.cached_data, "cache", "", 0, TRUE)
    ELSE PollResult(FALSE, NoData, "", "", 0, FALSE)

\* faulty variant: only the ETag is sent back
EtagHeaderOnly(entry) ==
    [ if_none_match |-> IF entry.hit THEN entry.etag ELSE None,
      if_modified_since |-> None ]

\* _poll_endpoint: the conditional headers built from cached_entry
ConditionalHeaders(entry) ==
    [ if_none_match |-> IF entry.hit THEN entry.etag ELSE None,
      if_modified_since |-> IF entry.hit THEN entry.last_modified ELSE None ]

\* faulty variant: a 304 is answered without the cached payload
NotModifiedEmpty(entry, source, url) ==
    PollResult(TRUE, NoData, source, url, 304, TRUE)

\* _poll_endpoint, response.status == 304: "Not modified - return cached data"
NotModifiedResult(entry, source, url) ==
    PollResult(TRUE, IF entry.hit THEN entry.data ELSE NoData, source, url, 304, TRUE)

NoRequest == [key |-> << >>, cached_entry |-> NoEntry,
              headers |-> ConditionalHeaders(NoEntry), sent_at |-> 0]

-----------------------------------------------------------------------------
(* _update_domain_state, _update_game_state, _calculate_adaptive_interval *)

IsLive(g) == g.gameState \in {"LIVE", "CRIT"}
IsUpcoming(g) == g.gameState \in {"FUT", "PRE"}
IsFinal(g) == g.gameState \in {"FINAL", "OFF"}

\* _update_game_state raises AttributeError when data has no .get
GameStateRaises(data) == data.kind = "nondict"

UpdateGameState(st, data) ==
    LET games == GamesOf(data)
        live_games == SelectSeq(games, IsLive)
    IN IF games = << >>
       THEN [st EXCEPT !.is_live_game = FALSE, !.game_state = "NO_GAMES"]
       ELSE IF live_games # << >>
       THEN [st EXCEPT !.is_live_game = TRUE, !.game_state = "LIVE",
                       !.intermission = live_games[1].inIntermission]
       ELSE [st EXCEPT !.is_live_game = FALSE,
                       !.game_state =
                           IF SelectSeq(games, IsUpcoming) # << >> THEN "SCHEDULED"
                           ELSE IF SelectSeq(games, IsFinal) # << >> THEN "FINAL"
                           ELSE "OFF_DAY"]

CalculateAdaptiveInterval(d, st) ==
    IF d = "live_game"
    THEN IF st.is_live_game
         THEN (IF st.intermission THEN LiveGameSlow ELSE LiveGameFast)
         ELSE IF st.game_state = "SCHEDULED" THEN Pregame
         ELSE IF st.game_state = "FINAL" THEN Postgame
         ELSE Offline
    ELSE IF d = "standings" THEN StandingsInterval
    ELSE IF d = "team_info"
         THEN (IF StandingsInterval > TeamInfoFloor THEN StandingsInterval ELSE TeamInfoFloor)
    ELSE IF d = "schedule" THEN ScheduleInterval
    ELSE IF d = "player_stats" THEN PlayerStatsInterval
    ELSE FallbackInterval

\* the loop's test for "new data": success, data and not cached
IsFresh(res) == res.success /\ Truthy(res.data) /\ ~res.cached

\* _update_domain_state raises (inside _update_game_state) for this result
UpdateRaises(d, res) ==
    res.success /\ IsFresh(res) /\ d = "live_game" /\ GameStateRaises(res.data)

\* faulty variant: last_successful_poll is stamped whatever the result
UpdateStampsAlways(d, st, res, t) ==
    [st EXCEPT !.last_poll_time = t, !.last_successful_poll = t,
               !.current_interval = CalculateAdaptiveInterval(d, st)]

\* faulty variant: a result that is not fresh clears the stored payload
UpdateForgetsStale(d, st, res, t) ==
    [st EXCEPT !.last_poll_time = t,
               !.cached_data = IF IsFresh(res) THEN res.data ELSE NoData,
               !.current_interval = CalculateAdaptiveInterval(d, st)]

\* _update_domain_state up to the point where it returns or raises
UpdateDomainState(d, st, res, t) ==
    LET polled == [st EXCEPT !.last_poll_time = t]
        stamped == IF res.success
                   THEN [polled EXCEPT !.last_successful_poll = t]
                   ELSE polled
        stored == IF res.success /\ Truthy(res.data) /\ ~res.cached
                  THEN [stamped EXCEPT !.cached_data = res.data]
                  ELSE stamped
        derived == IF res.success /\ Truthy(res.data) /\ ~res.cached
                      /\ d = "live_game"
                   THEN UpdateGameState(stored, res.data)
                   ELSE stored
    IN IF UpdateRaises(d, res)
       THEN stored
       ELSE [derived EXCEPT !.current_interval = CalculateAdaptiveInterval(d, derived)]

\* faulty variant: the first exception of a callback ends the delivery
NotifyUntilRaise(callbacks, d, data) ==
    LET raising == {i \in 1..Len(callbacks) : callbacks[i] \in RaisingSubscribers}
        last == IF raising = {} THEN Len(callbacks)
                ELSE CHOOSE i \in raising : \A j \in raising : i <= j
    IN [i \in 1..last |->
           [callback |-> callbacks[i], domain |-> d, data |-> data,
            raised |-> callbacks[i] \in RaisingSubscribers]]

\* _notify_data_callbacks: the invocations made, in list order; the
\* exception of a callback is logged inside the for loop, which goes on
NotifyDataCallbacks(callbacks, d, data) ==
    [i \in 1..Len(callbacks) |->
        [callback |-> callbacks[i], domain |-> d, data |-> data,
         raised |-> callbacks[i] \in RaisingSubscribers]]

-----------------------------------------------------------------------------
(* State after construction: AdaptivePoller.__init__, an empty cache.      *)

NoSet == [written |-> FALSE, data |-> NoData, etag |-> None,
          last_modified |-> None, expires_at |-> 0, intact |-> FALSE]

NoCall == [op |-> "none"]

\* no endpoint of the domain is known to answer well from now on
NotHealed == [on |-> FALSE, attempt |-> 0, at |-> 0]

InitWith(configurations) ==
    /\ endpoints \in configurations
    /\ polling_active = FALSE
    /\ session = FALSE
    /\ poll_tasks = [d \in DOMAIN endpoints |-> 0]
    /\ cancel_requested = {}
    /\ stopping = FALSE
    /\ stops = 0
    /\ domain_states = [d \in DOMAIN endpoints |-> DomainState(d)]
    /\ rate_limits = [s \in Sources |-> << >>]
    /\ data_callbacks = [d \in DOMAIN endpoints |-> << >>]
    /\ index = [k \in CacheKeys |-> NoIndex]
    /\ files = [k \in CacheKeys |-> NoFile]
    /\ now = StartTime
    /\ pc = [d \in DOMAIN endpoints |-> "none"]
    /\ attempt = [d \in DOMAIN endpoints |-> 0]
    /\ request = [d \in DOMAIN endpoints |-> NoRequest]
    /\ poll_result = [d \in DOMAIN endpoints |-> NoResult]
    /\ error_wake = [d \in DOMAIN endpoints |-> 0]
    /\ running = None
    /\ cycle = [d \in DOMAIN endpoints |-> "never"]
    /\ before = [d \in DOMAIN endpoints |-> DomainState(d)]
    /\ attempts = [d \in DOMAIN endpoints |-> << >>]
    /\ notified = [d \in DOMAIN endpoints |-> << >>]
    /\ admitted = [s \in Sources |-> << >>]
    /\ last_set = [k \in CacheKeys |-> NoSet]
    /\ polls = [d \in DOMAIN endpoints |-> 0]
    /\ failed_cycles = [d \in DOMAIN endpoints |-> 0]
    /\ primary_failures = [d \in DOMAIN endpoints |-> 0]
    /\ returned = NoCall
    /\ parsing_rules = NhlOfficialGameRules
    /\ schema_cache = NoFingerprint
    /\ legacy_rules = NhlOfficialGameRules
    /\ legacy_schema = NoFingerprint
    /\ discovery_cache = [index |-> [k \in DiscoveryKeys |-> NoIndex],
                          files |-> [k \in DiscoveryKeys |-> NoFile]]
    /\ last_cleanup = StartTime
    /\ healed = [d \in DOMAIN endpoints |-> NotHealed]

Domains == DOMAIN endpoints
Endpoints(d) == endpoints[d]

lifeVars == <<poll_tasks, cancel_requested, stopping, stops>>
\* what no step of the poller changes: the components called directly and
\* the health of the upstreams
legacyVars == <<legacy_rules, legacy_schema>>
startVars == <<discovery_cache, last_cleanup>>
outsideVars == <<returned, parsing_rules, schema_cache, legacyVars, startVars, healed>>
cacheVars == <<index, files, last_set>>
taskVars == <<pc, attempt, request, poll_result, error_wake>>
streakVars == <<failed_cycles, primary_failures>>
watchVars == <<cycle, before, attempts, notified, polls, streakVars>>

-----------------------------------------------------------------------------
(* register_data_callback *)

Registered == UNION { { data_callbacks[d][i] : i \in DOMAIN data_callbacks[d] } :
                      d \in Domains }

RegisterDataCallback(d, s) ==
    /\ running = None
    /\ s \notin Registered
    /\ \A i \in DOMAIN Subscribers :
          Subscribers[i] = s => \A j \in 1..(i - 1) : Subscribers[j] \in Registered
    /\ data_callbacks' = [data_callbacks EXCEPT ![d] = Append(@, s)]
    /\ UNCHANGED <<endpoints, polling_active, session, lifeVars, outsideVars, domain_states, rate_limits,
                   now, running, admitted, cacheVars, taskVars, watchVars>>

(* start_polling: returns at once when polling is active, else opens the   *)
(* session and creates one task per domain, each at the top of its loop.   *)
(* It is not called while a stop_polling call waits for the tasks to end.  *)

\* the flag is not looked at
NotChecked(active) == FALSE

\* if self.polling_active: return
AlreadyActive(active) == active

StartPolling ==
    /\ running = None
    /\ UNCHANGED outsideVars
    /\ ~stopping
    /\ IF AlreadyActive(polling_active)
       THEN UNCHANGED <<endpoints, polling_active, session, poll_tasks, pc>>
       ELSE /\ polling_active' = TRUE
            /\ session' = TRUE
            /\ poll_tasks' = [d \in Domains |-> poll_tasks[d] + 1]
            /\ pc' = [d \in Domains |-> "sleep"]
            /\ UNCHANGED endpoints
    /\ UNCHANGED <<domain_states, rate_limits, data_callbacks, now, running,
                   admitted, cacheVars, attempt, request, poll_result,
                   error_wake, watchVars, cancel_requested, stopping, stops>>

(* stop_polling up to its await: polling_active is cleared and every task  *)
(* is cancelled; the call then waits in asyncio.gather.                    *)

StopPolling ==
    /\ running = None
    /\ UNCHANGED outsideVars
    /\ polling_active => stops < MaxStops
    /\ IF ~polling_active
       THEN UNCHANGED <<polling_active, cancel_requested, stopping, stops>>
       ELSE /\ polling_active' = FALSE
            /\ cancel_requested' = {d \in Domains : poll_tasks[d] > 0}
            /\ stopping' = TRUE
            /\ stops' = stops + 1
    /\ UNCHANGED <<endpoints, session, poll_tasks, domain_states, rate_limits,
                   data_callbacks, now, running, admitted, cacheVars, taskVars,
                   watchVars>>

-----------------------------------------------------------------------------
(* _poll_domain_loop, from the top of the loop to the first endpoint of    *)
(* _poll_domain: the sleep is over once time.time() has reached            *)
(* last_poll_time + current_interval.                                      *)

\* faulty variant: the interval is left out
PollAtOnce(st) == st.last_poll_time

NextPollTime(st) == st.last_poll_time + st.current_interval

\* the endpoint at index i of d succeeds whenever it is polled
Healed(d, i) == healed[d].on /\ healed[d].attempt = i

\* faulty variant: every cycle starts with the primary endpoint
FromPrimary(st) == 0

\* for attempt, endpoint in enumerate(available_endpoints) with
\* 'if attempt < state.active_source_index: continue': the first endpoint
\* that is polled
FirstAttempt(st) == st.active_source_index

LoopIteration(d) ==
    /\ running = None
    /\ d \notin cancel_requested
    /\ pc[d] = "sleep"
    /\ polling_active
    /\ now >= NextPollTime(domain_states[d])
    /\ polls[d] < MaxPolls
    /\ running' = d
    /\ IF Endpoints(d) = << >>
       THEN /\ poll_result' = [poll_result EXCEPT ![d] = NoResult]
            /\ pc' = [pc EXCEPT ![d] = "update"]
            /\ UNCHANGED attempt
       ELSE /\ attempt' = [attempt EXCEPT ![d] = FirstAttempt(domain_states[d])]
            /\ pc' = [pc EXCEPT ![d] = "endpoint"]
            /\ UNCHANGED poll_result
    /\ cycle' = [cycle EXCEPT ![d] = "running"]
    /\ before' = [before EXCEPT ![d] = domain_states[d]]
    /\ attempts' = [attempts EXCEPT ![d] = << >>]
    /\ notified' = [notified EXCEPT ![d] = << >>]
    /\ polls' = [polls EXCEPT ![d] = @ + 1]
    /\ UNCHANGED <<endpoints, polling_active, session, lifeVars, outsideVars, domain_states, rate_limits,
                   data_callbacks, now, admitted, cacheVars, request, error_wake,
                   streakVars>>

\* the admissions of the 60 seconds up to t
Recent(stamps, t) == SelectSeq(stamps, LAMBDA x : t - x < 60)

\* the streak of failed fetches of endpoint 0 after a fetch of the endpoint
\* at hand failed, and after it succeeded
FetchFailed(d) ==
    IF attempt[d] = 0 THEN [primary_failures EXCEPT ![d] = @ + 1]
    ELSE primary_failures

FetchSucceeded(d) ==
    IF attempt[d] = 0 THEN [primary_failures EXCEPT ![d] = 0]
    ELSE primary_failures

\* the record of an attempt that decoded a body, and of one that did not
TriedBody(d, outcome, raw_data) ==
    Append(attempts[d], [attempt |-> attempt[d], outcome |-> outcome,
                         raw_data |-> raw_data])

Tried(d, outcome) == TriedBody(d, outcome, NoData)

\* faulty variant: a payload that could not be cached is a failed fetch
ResultIfSaved(saved, data, source, url) ==
    IF saved THEN PollResult(TRUE, data, source, url, 200, FALSE)
    ELSE PollResult(FALSE, NoData, source, url, 200, FALSE)

\* _poll_endpoint after self.cache.set(...): the value set returned is not
\* looked at
ResultAfterSet(saved, data, source, url) ==
    PollResult(TRUE, data, source, url, 200, FALSE)

\* a call that blocks the thread keeps the event loop until it returns
Blocking(d) == d

\* async with self.session.get(...): the task gives up the event loop
Suspended(d) == None

(* _poll_endpoint up to its suspension point: the rate-limit check, then   *)
(* either the whole of _poll_file_endpoint or the cache lookup and the     *)
(* sending of the request.                                                 *)

PollEndpoint(d) ==
    /\ running = d
    /\ pc[d] = "endpoint"
    /\ attempt[d] < Len(Endpoints(d))
    /\ LET endpoint == Endpoints(d)[attempt[d] + 1]
           source == endpoint.source_name
           allowed == CheckRateLimit(rate_limits[source], source, now)
           key == CacheKey(source, d, endpoint.url)
           entry == CacheGet(index, files, key, now)
       IN /\ rate_limits' = [rate_limits EXCEPT
                                ![source] = StampsAfterCheck(@, source, now)]
          /\ admitted' = IF allowed
                         THEN [admitted EXCEPT ![source] = Append(Recent(@, now), now)]
                         ELSE admitted
          /\ IF ~allowed
             THEN \* PollResult(success=False, "Rate limit exceeded")
                  /\ attempts' = [attempts EXCEPT ![d] = Tried(d, "rate_limited")]
                  /\ attempt' = [attempt EXCEPT ![d] = @ + 1]
                  /\ UNCHANGED <<domain_states, index, files, pc, request,
                                 poll_result, running, streakVars>>
             ELSE IF IsFileUrl(endpoint.url)
             THEN \/ \* open() or json.load() raised
                     /\ ~Healed(d, attempt[d])
                     /\ attempts' = [attempts EXCEPT ![d] = Tried(d, "failed")]
                     /\ attempt' = [attempt EXCEPT ![d] = @ + 1]
                     /\ primary_failures' = FetchFailed(d)
                     /\ UNCHANGED <<domain_states, index, files, pc, request,
                                    poll_result, running, failed_cycles>>
                  \/ \E raw_data \in FileContents(endpoint.url) :
                     LET data == ParseData(raw_data, d, source) IN
                     /\ attempts' = [attempts EXCEPT ![d] = TriedBody(d, "file", raw_data)]
                     /\ poll_result' = [poll_result EXCEPT ![d] =
                            PollResult(TRUE, data, source, endpoint.url, 0, FALSE)]
                     /\ domain_states' = [domain_states EXCEPT
                                             ![d] = ResetOnSuccess(@)]
                     /\ pc' = [pc EXCEPT ![d] = "update"]
                     /\ failed_cycles' = [failed_cycles EXCEPT ![d] = 0]
                     /\ primary_failures' = FetchSucceeded(d)
                     /\ UNCHANGED <<attempt, index, files, request, running>>
             ELSE /\ index' = IndexAfterGet(index, files, key, now)
                  /\ files' = FilesAfterGet(index, files, key, now)
                  /\ request' = [request EXCEPT ![d] =
                        [key |-> key, cached_entry |-> entry,
                         headers |-> ConditionalHeaders(entry), sent_at |-> now]]
                  /\ pc' = [pc EXCEPT ![d] = "fetch"]
                  /\ running' = Suspended(d)
                  /\ UNCHANGED <<domain_states, attempt, attempts, poll_result,
                                 streakVars>>
    /\ UNCHANGED <<endpoints, polling_active, session, lifeVars, outsideVars, data_callbacks, now, last_set,
                   error_wake, cycle, before, notified, polls>>

(* _poll_endpoint from the arrival of the response to its return, and the  *)
(* handling of the result in _poll_domain.                                 *)

HttpResponse(d) ==
    /\ running = None
    /\ d \notin cancel_requested
    /\ pc[d] = "fetch"
    /\ running' = d
    /\ request' = [request EXCEPT ![d] = NoRequest]
    /\ LET endpoint == Endpoints(d)[attempt[d] + 1]
           source == endpoint.source_name
           key == request[d].key
           entry == request[d].cached_entry
           in_time == now < request[d].sent_at + RequestTimeout
       IN \/ \* response.status == 304
             /\ in_time
             /\ poll_result' = [poll_result EXCEPT ![d] =
                    NotModifiedResult(entry, source, endpoint.url)]
             /\ attempts' = [attempts EXCEPT ![d] = Tried(d, "not_modified")]
             /\ domain_states' = [domain_states EXCEPT ![d] = ResetOnSuccess(@)]
             /\ pc' = [pc EXCEPT ![d] = "update"]
             /\ failed_cycles' = [failed_cycles EXCEPT ![d] = 0]
             /\ primary_failures' = FetchSucceeded(d)
             /\ UNCHANGED <<attempt, cacheVars>>
          \/ \* another status, invalid JSON, a timeout or any exception
             /\ ~Healed(d, attempt[d])
             /\ attempts' = [attempts EXCEPT ![d] = Tried(d, "failed")]
             /\ attempt' = [attempt EXCEPT ![d] = @ + 1]
             /\ pc' = [pc EXCEPT ![d] = "endpoint"]
             /\ primary_failures' = FetchFailed(d)
             /\ UNCHANGED <<domain_states, poll_result, cacheVars, failed_cycles>>
          \/ \* 200: parse_data, cache.set, success
             \E r \in Upstream(endpoint.url) :
             LET data == ParseData(r.body, d, source)
                 h == r
                 outcome == r.outcome
             IN
             /\ in_time
             /\ poll_result' = [poll_result EXCEPT ![d] =
                    ResultAfterSet(outcome = "written", data, source, endpoint.url)]
             /\ attempts' = [attempts EXCEPT ![d] =
                    TriedBody(d, IF outcome = "written" THEN "ok" ELSE "unsaved",
                              r.body)]
             /\ domain_states' = [domain_states EXCEPT ![d] = ResetOnSuccess(@)]
             /\ pc' = [pc EXCEPT ![d] = "update"]
             /\ files' = CASE outcome = "written" ->
                                FilesAfterSet(files, key, data, h.etag, h.last_modified)
                           [] outcome = "truncated" ->
                                [files EXCEPT ![key] = CorruptFile]
                           [] OTHER -> files
             /\ index' = IF outcome = "written"
                         THEN IndexAfterSet(index, key, GetCacheTtl(d), now)
                         ELSE index
             /\ last_set' = CASE outcome = "written" ->
                                [last_set EXCEPT ![key] =
                                    [written |-> TRUE, data |-> data,
                                     etag |-> h.etag,
                                     last_modified |-> h.last_modified,
                                     expires_at |-> now + GetCacheTtl(d),
                                     intact |-> TRUE]]
                              [] outcome = "truncated" ->
                                [last_set EXCEPT ![key].intact = FALSE]
                              [] OTHER -> last_set
             /\ failed_cycles' = [failed_cycles EXCEPT ![d] = 0]
             /\ primary_failures' = FetchSucceeded(d)
             /\ UNCHANGED attempt
    /\ UNCHANGED <<endpoints, polling_active, session, lifeVars, outsideVars, rate_limits, data_callbacks, now,
                   admitted, error_wake, cycle, before, notified, polls>>

(* _poll_domain after the loop over the endpoints *)

EndpointsExhausted(d) ==
    /\ running = d
    /\ pc[d] = "endpoint"
    /\ attempt[d] >= Len(Endpoints(d))
    /\ domain_states' = [domain_states EXCEPT ![d] = AllFailed(@, Len(Endpoints(d)))]
    /\ poll_result' = [poll_result EXCEPT ![d] = CachedOrFailure(domain_states[d])]
    /\ pc' = [pc EXCEPT ![d] = "update"]
    /\ failed_cycles' = [failed_cycles EXCEPT ![d] = @ + 1]
    /\ UNCHANGED <<endpoints, polling_active, session, lifeVars, outsideVars, rate_limits, data_callbacks, now,
                   running, admitted, cacheVars, attempt, request, error_wake,
                   cycle, before, attempts, notified, polls, primary_failures>>

(* The rest of the loop body: _update_domain_state, then                   *)
(* _notify_data_callbacks for new data; an exception ends the iteration in *)
(* the 5 s pause.                                                          *)

UpdateAndNotify(d) ==
    /\ running = d
    /\ pc[d] = "update"
    /\ running' = None
    /\ domain_states' = [domain_states EXCEPT
                            ![d] = UpdateDomainState(d, @, poll_result[d], now)]
    /\ IF UpdateRaises(d, poll_result[d])
       THEN /\ pc' = [pc EXCEPT ![d] = "pause"]
            /\ error_wake' = [error_wake EXCEPT ![d] = now + ErrorPause]
            /\ cycle' = [cycle EXCEPT ![d] = "raised"]
            /\ UNCHANGED notified
       ELSE /\ pc' = [pc EXCEPT ![d] = "sleep"]
            /\ cycle' = [cycle EXCEPT ![d] = "completed"]
            /\ notified' = [notified EXCEPT ![d] =
                   IF IsFresh(poll_result[d])
                   THEN NotifyDataCallbacks(data_callbacks[d], d, poll_result[d].data)
                   ELSE << >>]
            /\ UNCHANGED error_wake
    /\ UNCHANGED <<endpoints, polling_active, session, lifeVars, outsideVars, rate_limits, data_callbacks, now,
                   admitted, cacheVars, attempt, request, poll_result, before,
                   attempts, polls, streakVars>>

(* await asyncio.sleep(5) returns *)

ErrorPauseOver(d) ==
    /\ running = None
    /\ d \notin cancel_requested
    /\ pc[d] = "pause"
    /\ now >= error_wake[d]
    /\ pc' = [pc EXCEPT ![d] = "sleep"]
    /\ UNCHANGED <<endpoints, polling_active, session, lifeVars, outsideVars, domain_states, rate_limits,
                   data_callbacks, now, running, admitted, cacheVars, attempt,
                   request, poll_result, error_wake, watchVars>>

-----------------------------------------------------------------------------
\* every except clause of this kind catches the error
CaughtByAnyClause(error) == TRUE

\* except Exception: asyncio.CancelledError derives from BaseException
CaughtByExceptException(error) == error # "CancelledError"

(* CancelledError is raised in the task of d at the await it is suspended  *)
(* at. At asyncio.sleep it leaves the loop; at session.get it passes the   *)
(* except clauses of _poll_endpoint and _poll_domain and leaves the loop;  *)
(* a clause that caught it would turn it into a failed attempt.            *)

TaskCancelled(d) ==
    /\ running = None
    /\ UNCHANGED outsideVars
    /\ d \in cancel_requested
    /\ cancel_requested' = cancel_requested \ {d}
    /\ request' = [request EXCEPT ![d] = NoRequest]
    /\ IF pc[d] = "fetch" /\ CaughtByExceptException("CancelledError")
       THEN /\ attempts' = [attempts EXCEPT ![d] = Tried(d, "failed")]
            /\ attempt' = [attempt EXCEPT ![d] = @ + 1]
            /\ pc' = [pc EXCEPT ![d] = "endpoint"]
            /\ primary_failures' = FetchFailed(d)
            /\ running' = d
            /\ UNCHANGED <<poll_tasks, error_wake, cycle>>
       ELSE /\ pc' = [pc EXCEPT ![d] = "none"]
            /\ attempt' = [attempt EXCEPT ![d] = 0]
            /\ error_wake' = [error_wake EXCEPT ![d] = 0]
            /\ cycle' = [cycle EXCEPT ![d] =
                            IF pc[d] = "fetch" THEN "cancelled" ELSE @]
            /\ poll_tasks' = [poll_tasks EXCEPT ![d] = @ - 1]
            /\ UNCHANGED <<attempts, primary_failures, running>>
    /\ UNCHANGED <<endpoints, polling_active, session, stopping, stops,
                   domain_states, rate_limits, data_callbacks, now, admitted,
                   cacheVars, poll_result, before, notified, polls,
                   failed_cycles>>

\* the call goes on without waiting
NotAwaited(tasks) == TRUE

\* await asyncio.gather(*self.poll_tasks.values()) returns
AllTasksDone(tasks) == \A d \in DOMAIN tasks : tasks[d] = 0

(* stop_polling from the return of asyncio.gather: the session is closed   *)
(* and poll_tasks, whose tasks are all done, is emptied.                   *)

StopReturns ==
    /\ running = None
    /\ UNCHANGED outsideVars
    /\ stopping
    /\ AllTasksDone(poll_tasks)
    /\ session' = FALSE
    /\ stopping' = FALSE
    /\ UNCHANGED <<endpoints, polling_active, poll_tasks, cancel_requested, stops,
                   domain_states, rate_limits, data_callbacks, now, running,
                   admitted, cacheVars, taskVars, watchVars>>

-----------------------------------------------------------------------------
(* time.time(): the clock moves, while every task is suspended, to the     *)
(* next instant at which something can change: a sleep ends, a timestamp   *)
(* leaves the rate window, a cache entry expires.                          *)

EventTimes ==
    { NextPollTime(domain_states[d]) : d \in {e \in Domains : pc[e] = "sleep"} }
    \cup { error_wake[d] : d \in {e \in Domains : pc[e] = "pause"} }
    \cup { request[d].sent_at + RequestTimeout :
              d \in {e \in Domains : pc[e] = "fetch"} }
    \cup UNION { { rate_limits[s][i] + RateWindow : i \in DOMAIN rate_limits[s] } :
                 s \in Sources }
    \cup { index[k].expires_at + 1 : k \in {j \in CacheKeys : index[j].present} }

\* a task whose sleep is over runs before the event loop waits again
Due(d) ==
    \/ d \in cancel_requested
    \/ pc[d] = "sleep" /\ polling_active /\ polls[d] < MaxPolls
       /\ now >= NextPollTime(domain_states[d])
    \/ pc[d] = "pause" /\ now >= error_wake[d]
    \/ pc[d] = "fetch" /\ now >= request[d].sent_at + RequestTimeout

Tick ==
    /\ running = None
    /\ ~stopping
    /\ \A d \in Domains : ~Due(d)
    /\ \E t \in EventTimes :
        /\ t > now
        /\ \A u \in EventTimes : u > now => t <= u
        /\ now' = t
    /\ UNCHANGED <<endpoints, polling_active, session, lifeVars, outsideVars, domain_states, rate_limits,
                   data_callbacks, running, admitted, cacheVars, taskVars,
                   watchVars>>

\* the clock moves while no request is in flight: every upstream answers
\* within the instant
Advance ==
    /\ \A d \in Domains : pc[d] # "fetch"
    /\ Tick

\* the clock moves while a request is in flight, up to the session timeout
Stall ==
    /\ \E d \in Domains : pc[d] = "fetch"
    /\ Tick

-----------------------------------------------------------------------------

Next ==
    \/ StartPolling
    \/ Advance
    \/ \E d \in Domains, i \in DOMAIN Subscribers :
          RegisterDataCallback(d, Subscribers[i])
    \/ \E d \in Domains : LoopIteration(d)
    \/ \E d \in Domains : PollEndpoint(d)
    \/ \E d \in Domains : HttpResponse(d)
    \/ \E d \in Domains : EndpointsExhausted(d)
    \/ \E d \in Domains : UpdateAndNotify(d)
    \/ \E d \in Domains : ErrorPauseOver(d)

Init == InitWith(Configurations)

Spec == Init /\ [][Next]_vars

\* one configuration each
SpecFallback == InitWith({FallbackEndpoints}) /\ [][Next]_vars
SpecSingle == InitWith({SingleEndpoints}) /\ [][Next]_vars
SpecShared == InitWith({SharedEndpoints}) /\ [][Next]_vars
SpecScoreboard == InitWith({ScoreboardEndpoints}) /\ [][Next]_vars

\* the same runs with requests that stay in flight while the clock moves
\* no subscriber registers in these runs
NextStalled ==
    \/ StartPolling
    \/ Advance
    \/ Stall
    \/ \E d \in Domains : LoopIteration(d)
    \/ \E d \in Domains : PollEndpoint(d)
    \/ \E d \in Domains : HttpResponse(d)
    \/ \E d \in Domains : EndpointsExhausted(d)
    \/ \E d \in Domains : UpdateAndNotify(d)
    \/ \E d \in Domains : ErrorPauseOver(d)
SpecStalled == InitWith({TwoSourceEndpoints}) /\ [][NextStalled]_vars

\* the same runs with stop_polling called at any moment
NextLifecycle ==
    \/ Next
    \/ StopPolling
    \/ \E d \in Domains : TaskCancelled(d)
    \/ StopReturns
SpecLifecycle == InitWith({TwoTaskEndpoints}) /\ [][NextLifecycle]_vars

\* the loops of two domains, stopped and started again at any moment, under
\* an event loop that runs every task that is ready: a sleep that is over
\* returns, a request ends with a response or an error, and time passes
LoopDomains == DOMAIN TwoTaskEndpoints

NextLoop ==
    \/ StartPolling
    \/ Advance
    \/ StopPolling
    \/ StopReturns
    \/ \E d \in Domains : TaskCancelled(d)
    \/ \E d \in Domains : LoopIteration(d)
    \/ \E d \in Domains : PollEndpoint(d)
    \/ \E d \in Domains : HttpResponse(d)
    \/ \E d \in Domains : EndpointsExhausted(d)
    \/ \E d \in Domains : UpdateAndNotify(d)
    \/ \E d \in Domains : ErrorPauseOver(d)

FairLoop ==
    /\ WF_vars(Advance)
    /\ \A d \in LoopDomains :
          /\ WF_vars(LoopIteration(d))
          /\ WF_vars(PollEndpoint(d))
          /\ WF_vars(HttpResponse(d))
          /\ WF_vars(EndpointsExhausted(d))
          /\ WF_vars(UpdateAndNotify(d))
          /\ WF_vars(ErrorPauseOver(d))

SpecLoop == InitWith({TwoTaskEndpoints}) /\ [][NextLoop]_vars /\ FairLoop

-----------------------------------------------------------------------------
(* The cache called directly: CacheManager.get and .set hand over to       *)
(* JSONCache, delete is JSONCache.delete.  Between the calls the clock     *)
(* moves and payload files are lost or damaged on disk.                    *)

ApiKeys ==
    { CacheKey(NhlOfficial, "live_game", "https://nhl/score"),
      CacheKey(NhlOfficial, "standings", "https://nhl/standings") }

\* the arguments of set: a TTL above 0 and what a response brought, its
\* payload and its validators
ApiTtls == {1, 2}
ApiResponses ==
    { Response(PLive, "e1", "m1", "written"),
      Response(PFut, None, None, "written") }

pollerVars == <<endpoints, polling_active, session, lifeVars, domain_states,
                rate_limits, data_callbacks, taskVars, running, admitted,
                watchVars, healed>>

\* JSONCache.get_stats: the counts taken from the index
GetStats(idx, t) ==
    [ total_entries |-> Cardinality({k \in DOMAIN idx : idx[k].present}),
      expired_entries |->
          Cardinality({k \in DOMAIN idx : idx[k].present /\ t > idx[k].expires_at}) ]

\* the set call the call at hand follows at once, if any
Follows == IF returned.op = "set" THEN returned ELSE NoCall

\* JSONCache.set: json.dump may fail before the file is opened, or part
\* way through the write; any exception ends in return False
CacheSetCall(key, data, ttl_seconds, etag, last_modified) ==
    \E outcome \in {"written", "untouched", "truncated"} :
        /\ files' = CASE outcome = "written" ->
                              FilesAfterSet(files, key, data, etag, last_modified)
                      [] outcome = "truncated" -> [files EXCEPT ![key] = CorruptFile]
                      [] OTHER -> files
        /\ index' = IF outcome = "written"
                    THEN IndexAfterSet(index, key, ttl_seconds, now)
                    ELSE index
        /\ returned' = [op |-> "set", key |-> key, data |-> data,
                        ttl_seconds |-> ttl_seconds, etag |-> etag,
                        last_modified |-> last_modified,
                        previous |-> CacheGet(index, files, key, now),
                        value |-> outcome = "written"]
        /\ UNCHANGED <<now, last_set, pollerVars, startVars, parsing_rules, schema_cache, legacyVars>>

\* JSONCache.get
CacheGetCall(key) ==
    /\ index' = IndexAfterGet(index, files, key, now)
    /\ files' = FilesAfterGet(index, files, key, now)
    /\ returned' = [op |-> "get", key |-> key,
                    value |-> CacheGet(index, files, key, now),
                    entry_info |-> index[key], file |-> files[key].state,
                    at |-> now, follows |-> Follows]
    /\ UNCHANGED <<now, last_set, pollerVars, startVars, parsing_rules, schema_cache, legacyVars>>

\* JSONCache.delete
CacheDeleteCall(key) ==
    /\ files' = [files EXCEPT ![key] = NoFile]
    /\ index' = [index EXCEPT ![key] = NoIndex]
    /\ returned' = [op |-> "delete", key |-> key, value |-> TRUE,
                    entry_info |-> index[key], file |-> files[key].state]
    /\ UNCHANGED <<now, last_set, pollerVars, startVars, parsing_rules, schema_cache, legacyVars>>

\* the payload file of a key disappears from the cache directory
FileLost(key) ==
    /\ files[key].state # "missing"
    /\ files' = [files EXCEPT ![key] = NoFile]
    /\ returned' = [op |-> "lost", key |-> key]
    /\ UNCHANGED <<index, now, last_set, pollerVars, startVars, parsing_rules, schema_cache, legacyVars>>

\* the payload file of a key is cut short: json.load fails on it
FileDamaged(key) ==
    /\ files[key].state = "ok"
    /\ files' = [files EXCEPT ![key] = CorruptFile]
    /\ returned' = [op |-> "damaged", key |-> key]
    /\ UNCHANGED <<index, now, last_set, pollerVars, startVars, parsing_rules, schema_cache, legacyVars>>

\* time.time() moves on
ClockMoves ==
    /\ now < StartTime + MaxAge
    /\ now' = now + 1
    /\ returned' = [op |-> "clock"]
    /\ UNCHANGED <<index, files, last_set, pollerVars, startVars, parsing_rules, schema_cache, legacyVars>>

NextCache ==
    \/ \E key \in ApiKeys, r \in ApiResponses, ttl_seconds \in ApiTtls :
          CacheSetCall(key, r.body, ttl_seconds, r.etag, r.last_modified)
    \/ \E key \in ApiKeys : CacheGetCall(key)
    \/ \E key \in ApiKeys : CacheDeleteCall(key)
    \/ \E key \in ApiKeys : FileLost(key)
    \/ \E key \in ApiKeys : FileDamaged(key)
    \/ ClockMoves

SpecCache == InitWith({SharedEndpoints}) /\ [][NextCache]_vars

-----------------------------------------------------------------------------
(* Cache housekeeping: JSONCache.cleanup_expired and                       *)
(* CacheManager.cleanup_if_needed next to the calls of get and set.        *)

CleanupInterval == 1     \* CacheConfig.cleanup_interval, in seconds

\* faulty variant: an entry is dropped from the moment it expires
ExpiredAt(info, t) == info.present /\ t >= info.expires_at

\* cleanup_expired: the test that puts a key on expired_keys
Expired(info, t) == info.present /\ t > info.expires_at

\* cleanup_expired: the index after delete() was called on every expired key
IndexAfterCleanup(idx, t) ==
    [k \in DOMAIN idx |-> IF Expired(idx[k], t) THEN NoIndex ELSE idx[k]]

\* cleanup_expired: the files after delete() unlinked those of the expired
\* keys
FilesAfterCleanup(idx, fls, t) ==
    [k \in DOMAIN fls |-> IF Expired(idx[k], t) THEN NoFile ELSE fls[k]]

\* the cache directory after cleanup_expired
CleanupExpired ==
    /\ index' = IndexAfterCleanup(index, now)
    /\ files' = FilesAfterCleanup(index, files, now)
    /\ discovery_cache' =
           [index |-> IndexAfterCleanup(discovery_cache.index, now),
            files |-> FilesAfterCleanup(discovery_cache.index, discovery_cache.files, now)]

\* JSONCache.cleanup_expired called directly
CleanupExpiredCall ==
    /\ CleanupExpired
    /\ returned' = [op |-> "cleanup_expired", at |-> now, scanned |-> TRUE,
                    expired_keys |-> {k \in ApiKeys : Expired(index[k], now)}]
    /\ UNCHANGED <<last_cleanup, now, last_set, pollerVars, parsing_rules, schema_cache,
                   legacyVars>>

\* CacheManager.cleanup_if_needed
CleanupIfNeeded ==
    LET current_time == now
        needed == current_time - last_cleanup > CleanupInterval
    IN /\ IF needed
          THEN CleanupExpired /\ last_cleanup' = current_time
          ELSE UNCHANGED <<index, files, discovery_cache, last_cleanup>>
       /\ returned' = [op |-> "cleanup_if_needed", at |-> now, scanned |-> needed,
                       expired_keys |-> IF needed
                                        THEN {k \in ApiKeys : Expired(index[k], now)}
                                        ELSE {}]
       /\ UNCHANGED <<now, last_set, pollerVars, parsing_rules, schema_cache, legacyVars>>

\* the cache called directly, with its housekeeping
NextCleanup ==
    \/ \E key \in ApiKeys, r \in ApiResponses, ttl_seconds \in ApiTtls :
          CacheSetCall(key, r.body, ttl_seconds, r.etag, r.last_modified)
    \/ \E key \in ApiKeys : CacheGetCall(key)
    \/ \E key \in ApiKeys : FileLost(key)
    \/ CleanupExpiredCall
    \/ CleanupIfNeeded
    \/ ClockMoves

SpecCleanup == InitWith({SharedEndpoints}) /\ [][NextCleanup]_vars

-----------------------------------------------------------------------------
(* The parser and the schema cache called directly, as by the parsing      *)
(* script and by the discovery engine: parse_data is DataParser.parse_data *)
(* for the source 'nhl_official' and the domain live_game, the rules are   *)
(* the ones the parser holds, and the schema cache holds at most the       *)
(* fingerprint of that source and domain.                                  *)

\* the fingerprints compared: those of the payloads and the one of {}
Fingerprints ==
    { CreateSchemaFingerprint(data) : data \in GamePayloads } \cup { EmptyFingerprint }

\* a source serves one kind of document: a list of games or a single game
SameKind(fingerprint, data) == (<<"games">> \in fingerprint.key_paths) = data.has_games

\* what an endpoint under validation answers: the status (200 for a file
\* that opens), whether the body decodes as JSON, and the decoded body
Answer(status, decodes, data) == [status |-> status, decodes |-> decodes, data |-> data]
ValidationPayloads ==
    { ScoreList(games) : games \in { << >> } \cup { <<g>> : g \in OfficialGames \cup DriftedGames } }
    \cup { Landing(g) : g \in DriftedGames }
ValidationAnswers ==
    { Answer(200, TRUE, data) : data \in ValidationPayloads }
    \cup { Answer(404, TRUE, ScoreList(<< >>)), Answer(200, FALSE, ScoreList(<< >>)) }

\* _validate_response_structure for live_game: the required keys 'games'
\* and 'gameDate' are there, and _validate_game_data accepts the first game
\* (its awayTeam, homeTeam and gameState, which every game of the model
\* has, each team with the id the model leaves out)
ValidateGameData(data) == data.has_games /\ <<"gameDate">> \in DOMAIN data.top

\* _validate_endpoint and _validate_file_endpoint return True
ValidationSucceeds(file, answer) ==
    /\ file \/ answer.status = 200
    /\ answer.decodes
    /\ ValidateGameData(answer.data)

\* DataSourceDiscovery._validate_endpoint: for a networked endpoint whose
\* answer passes, the fingerprint of the answer is stored; a file:// URL is
\* handed to _validate_file_endpoint, which stores nothing
ValidateEndpoint(file, answer) ==
    /\ file => answer.status = 200
    /\ schema_cache' = IF ValidationSucceeds(file, answer) /\ ~file
                       THEN Stored(CreateSchemaFingerprint(answer.data))
                       ELSE schema_cache
    /\ returned' = [op |-> "validate_endpoint", file |-> file, answer |-> answer,
                    value |-> ValidationSucceeds(file, answer)]
    /\ UNCHANGED <<parsing_rules, legacyVars, now, cacheVars, pollerVars, startVars>>

\* _apply_adaptive_parsing for the rules and the stored fingerprint of one
\* (domain, source): with a fingerprint stored, the fingerprint of the raw
\* data replaces it and, on drift, the rules are adapted before they are
\* applied.  The adapted rules are the rule objects of the parser
\* (original_rules.copy() copies the list, not the rules).
AdaptiveParsing(cached_fingerprint, rules, raw_data) ==
    LET current_fingerprint == CreateSchemaFingerprint(raw_data)
        changes == CompareFingerprints(cached_fingerprint.fingerprint, current_fingerprint)
        adapted == IF cached_fingerprint.stored /\ DriftDetected(changes)
                   THEN AdaptRulesForSchemaChanges(rules, changes, raw_data)
                   ELSE rules
    IN [ fingerprint |-> IF cached_fingerprint.stored
                         THEN Stored(current_fingerprint)
                         ELSE cached_fingerprint,
         changes |-> changes,
         rules |-> adapted,
         value |-> ParseWithRules(raw_data, adapted) ]

\* parse_data(raw_data, 'live_game', 'nhl_official')
ParseDataCall(raw_data) ==
    LET cached_fingerprint == schema_cache
        parsed == AdaptiveParsing(cached_fingerprint, parsing_rules, raw_data)
    IN /\ cached_fingerprint.stored => SameKind(cached_fingerprint.fingerprint, raw_data)
       /\ schema_cache' = parsed.fingerprint
       /\ parsing_rules' = parsed.rules
       /\ returned' = [op |-> "parse_data", raw_data |-> raw_data,
                       cached_fingerprint |-> cached_fingerprint,
                       changes |-> parsed.changes, rules |-> parsed.rules,
                       value |-> parsed.value]
       /\ UNCHANGED <<legacyVars, now, cacheVars, pollerVars, startVars>>

\* parse_data(raw_data, 'live_game', 'nhl_legacy'): the rules are those of
\* a call of _get_nhl_official_game_rules of their own
ParseLegacyCall(raw_data) ==
    LET cached_fingerprint == legacy_schema
        parsed == AdaptiveParsing(cached_fingerprint, legacy_rules, raw_data)
    IN /\ cached_fingerprint.stored => SameKind(cached_fingerprint.fingerprint, raw_data)
       /\ legacy_schema' = parsed.fingerprint
       /\ legacy_rules' = parsed.rules
       /\ returned' = [op |-> "parse_data_legacy", raw_data |-> raw_data,
                       cached_fingerprint |-> cached_fingerprint,
                       changes |-> parsed.changes, rules |-> parsed.rules,
                       value |-> parsed.value]
       /\ UNCHANGED <<parsing_rules, schema_cache, now, cacheVars, pollerVars, startVars>>

\* CacheManager.update_schema_fingerprint called directly: the fingerprint
\* of the data is stored, and the diff against the one stored before is
\* returned, None when there was none
UpdateSchemaFingerprintCall(data) ==
    LET old_fingerprint == schema_cache
        new_fingerprint == CreateSchemaFingerprint(data)
    IN /\ old_fingerprint.stored => SameKind(old_fingerprint.fingerprint, data)
       /\ schema_cache' = Stored(new_fingerprint)
       /\ returned' = [op |-> "update_schema_fingerprint", raw_data |-> data,
                       cached_fingerprint |-> old_fingerprint,
                       diff |-> [given |-> old_fingerprint.stored,
                                 changes |-> CompareFingerprints(
                                     old_fingerprint.fingerprint, new_fingerprint)]]
       /\ UNCHANGED <<parsing_rules, legacyVars, now, cacheVars, pollerVars, startVars>>

\* CacheManager.update_schema_fingerprint(data, 'nhl_legacy', 'live_game')
UpdateLegacyFingerprintCall(data) ==
    LET old_fingerprint == legacy_schema
        new_fingerprint == CreateSchemaFingerprint(data)
    IN /\ old_fingerprint.stored => SameKind(old_fingerprint.fingerprint, data)
       /\ legacy_schema' = Stored(new_fingerprint)
       /\ returned' = [op |-> "update_schema_fingerprint_legacy", raw_data |-> data,
                       cached_fingerprint |-> old_fingerprint,
                       diff |-> [given |-> old_fingerprint.stored,
                                 changes |-> CompareFingerprints(
                                     old_fingerprint.fingerprint, new_fingerprint)]]
       /\ UNCHANGED <<parsing_rules, schema_cache, legacy_rules, now, cacheVars, pollerVars, startVars>>

\* SchemaCache.compare_fingerprints
CompareFingerprintsCall(old, new) ==
    /\ returned' = [op |-> "compare_fingerprints", old |-> old, new |-> new,
                    value |-> CompareFingerprints(old, new)]
    /\ UNCHANGED <<parsing_rules, schema_cache, legacyVars, now, cacheVars, pollerVars, startVars>>

\* discovery and parsing of one source
NextSchema ==
    \/ \E file \in BOOLEAN, answer \in ValidationAnswers : ValidateEndpoint(file, answer)
    \/ \E raw_data \in GamePayloads : ParseDataCall(raw_data)
    \/ \E data \in SingleGamePayloads : UpdateSchemaFingerprintCall(data)

SpecSchema == InitWith({SingleEndpoints}) /\ [][NextSchema]_vars

\* single games handed to the parser under two source names: the full
\* game, the same without one field and without three
RulePayloads ==
    { Landing(GameDocument("abbrev", "abbrev", "TOR", "LIVE", stats)) :
          stats \in {"all", "no_home_sog", "away_score"} }
LegacyPayloads ==
    { Landing(GameDocument("abbrev", "abbrev", "TOR", "LIVE", stats)) :
          stats \in {"all", "away_score"} }

NextRules ==
    \/ \E data \in RulePayloads : UpdateSchemaFingerprintCall(data)
    \/ \E data \in LegacyPayloads : UpdateLegacyFingerprintCall(data)
    \/ \E raw_data \in RulePayloads : ParseDataCall(raw_data)
    \/ \E raw_data \in LegacyPayloads : ParseLegacyCall(raw_data)

SpecRules == InitWith({SingleEndpoints}) /\ [][NextRules]_vars

\* fingerprints compared two by two
NextCompare ==
    \E old \in Fingerprints, new \in Fingerprints : CompareFingerprintsCall(old, new)

SpecCompare == InitWith({SingleEndpoints}) /\ [][NextCompare]_vars

-----------------------------------------------------------------------------
(* Start-up discovery.  run_discovery builds a DataSourceDiscovery, loads  *)
(* the cached results and either discovers every source again or refreshes *)
(* the validation of the endpoints it loaded.                              *)

ValidationInterval == 3600     \* validation_interval of refresh_endpoint_validation
DiscoveryTtl == 86400          \* ttl_seconds of _cache_discovery_results
ShortDelay == 1800             \* the program is started again after half an hour
LongDelay == 86400             \* or after a day
MaxShortDelays == 3            \* short delays in a row

\* the domains of domain_patterns the model keeps: one with sources and one
\* for which no source is enabled
DiscoveryDomains == {"live_game", "schedule"}

\* DiscoveredEndpoint, with the fields validation reads and writes
DiscoveredEndpoint(url, source_name, last_validated, validation_success) ==
    [url |-> url, source_name |-> source_name, last_validated |-> last_validated,
     validation_success |-> validation_success]

\* _discover_static_endpoints: one endpoint per sample_endpoints pattern of
\* live_game, not yet validated
StaticEndpoints(source) ==
    << DiscoveredEndpoint("https://nhl/score/{date}", source, 0, FALSE),
       DiscoveredEndpoint("https://nhl/gamecenter/{game_id}/play-by-play", source, 0, FALSE) >>

\* _validate_endpoint on an endpoint object: an answer that passes stamps it
Validated(endpoint, answer, t) ==
    IF ValidationSucceeds(IsFileUrl(endpoint.url), answer)
    THEN [endpoint EXCEPT !.last_validated = t, !.validation_success = TRUE]
    ELSE endpoint

\* _discover_domain_endpoints: a file source yields its endpoint when the
\* file validates; a networked source yields its static endpoints, marked
\* valid without a request
DiscoverDomainEndpoints(source, answer, t) ==
    IF source = LocalBackup
    THEN LET endpoint == DiscoveredEndpoint("file://backup.json", source, 0, FALSE)
         IN IF ValidationSucceeds(TRUE, answer)
            THEN << Validated(endpoint, answer, t) >>
            ELSE << >>
    ELSE [i \in 1..Len(StaticEndpoints(source)) |->
             [StaticEndpoints(source)[i] EXCEPT !.validation_success = TRUE,
                                                !.last_validated = t]]

\* discover_all_sources: every domain starts from an empty list and gets
\* the endpoints of its enabled sources in priority order
DiscoverAllSources(enabled, answer, t) ==
    [domain \in DiscoveryDomains |->
        IF domain = "live_game"
        THEN (IF NhlOfficial \in enabled
              THEN DiscoverDomainEndpoints(NhlOfficial, answer, t) ELSE << >>)
             \o (IF LocalBackup \in enabled
                 THEN DiscoverDomainEndpoints(LocalBackup, answer, t) ELSE << >>)
        ELSE << >>]

\* faulty variant: every endpoint is validated again
RefreshAlways(endpoint, t) == TRUE

\* refresh_endpoint_validation: the age test of one endpoint
RefreshDue(endpoint, t) == t - endpoint.last_validated > ValidationInterval

\* refresh_endpoint_validation for one domain: an endpoint that is due is
\* validated when config.get_source_for_domain finds an enabled source
RefreshEndpointValidation(eps, enabled, answers, t) ==
    [i \in 1..Len(eps) |->
        IF RefreshDue(eps[i], t) /\ enabled # {}
        THEN Validated(eps[i], answers[i], t)
        ELSE eps[i]]

\* sum(len(eps) for eps in discovery.endpoints.values())
TotalEndpoints(eps) ==
    Len(eps["live_game"]) + Len(eps["schedule"])

\* the fingerprint _validate_endpoint stores while a domain is refreshed:
\* that of the last networked endpoint whose answer passed
RECURSIVE FingerprintAfterRefresh(_, _, _, _, _, _)
FingerprintAfterRefresh(stored, eps, enabled, answers, t, i) ==
    IF i > Len(eps) THEN stored
    ELSE FingerprintAfterRefresh(
             IF /\ RefreshDue(eps[i], t) /\ enabled # {}
                /\ ~IsFileUrl(eps[i].url)
                /\ ValidationSucceeds(FALSE, answers[i])
             THEN Stored(CreateSchemaFingerprint(answers[i].data))
             ELSE stored,
             eps, enabled, answers, t, i + 1)

\* load_cached_discovery_results: the entry cache.get returns
CachedDiscovery == CacheGet(discovery_cache.index, discovery_cache.files,
                            "discovery_results", now)

\* what the endpoints under validation may answer
RefreshAnswers ==
    { Answer(200, TRUE, ScoreList(<< CHOOSE g \in OfficialGames : TRUE >>)),
      Answer(200, TRUE, ScoreList(<< >>)),
      Answer(200, FALSE, ScoreList(<< >>)) }

\* run_discovery(config, cache_manager), with the sources the configuration
\* enables, the answers of the endpoints validated and whether the write of
\* the results succeeds
RunDiscovery(enabled, answers, written) ==
    LET cached_entry == CachedDiscovery
        cache_loaded == cached_entry.hit
        loaded == IF cache_loaded THEN cached_entry.data
                  ELSE [domain \in DiscoveryDomains |-> << >>]
        total_cached_endpoints == IF cache_loaded THEN TotalEndpoints(loaded) ELSE 0
        full == ~cache_loaded \/ total_cached_endpoints = 0
        after_get ==
            [index |-> IndexAfterGet(discovery_cache.index, discovery_cache.files,
                                     "discovery_results", now),
             files |-> FilesAfterGet(discovery_cache.index, discovery_cache.files,
                                     "discovery_results", now)]
        found == DiscoverAllSources(enabled, answers[1], now)
        refreshed == [domain \in DiscoveryDomains |->
                         RefreshEndpointValidation(loaded[domain], enabled, answers, now)]
        value == IF full THEN found ELSE refreshed
    IN /\ full => written \in BOOLEAN
       /\ ~full => written = FALSE
       /\ discovery_cache' =
              IF full /\ written
              THEN [index |-> IndexAfterSet(after_get.index, "discovery_results",
                                            DiscoveryTtl, now),
                    files |-> FilesAfterSet(after_get.files, "discovery_results",
                                            found, None, None)]
              ELSE after_get
       /\ schema_cache' =
              IF full THEN schema_cache
              ELSE FingerprintAfterRefresh(schema_cache, loaded["live_game"], enabled,
                                           answers, now, 1)
       /\ returned' = [op |-> "run_discovery", enabled |-> enabled, at |-> now,
                       cached_entry |-> cached_entry, full |-> full, value |-> value]
       /\ UNCHANGED <<parsing_rules, legacyVars, last_cleanup, now, cacheVars, pollerVars>>

\* the program is down for a while before it is started again
Restarts(delay) ==
    /\ \/ delay = ShortDelay /\ (now - StartTime) % LongDelay < MaxShortDelays * ShortDelay
       \/ delay = LongDelay /\ now < StartTime + LongDelay
    /\ now' = now + delay
    /\ returned' = [op |-> "restart"]
    /\ UNCHANGED <<discovery_cache, schema_cache, parsing_rules, legacyVars, last_cleanup,
                   cacheVars, pollerVars>>

\* the file of the cached results is cut short while the program is down
DiscoveryFileDamaged ==
    /\ discovery_cache.files["discovery_results"].state = "ok"
    /\ discovery_cache' = [discovery_cache EXCEPT
                              !.files["discovery_results"] = CorruptFile]
    /\ returned' = [op |-> "damaged", key |-> "discovery_results"]
    /\ UNCHANGED <<schema_cache, parsing_rules, legacyVars, last_cleanup, now,
                   cacheVars, pollerVars>>

NextDiscovery ==
    \/ \E enabled \in SUBSET {NhlOfficial, LocalBackup},
          answers \in [1..3 -> RefreshAnswers], written \in BOOLEAN :
          RunDiscovery(enabled, answers, written)
    \/ \E delay \in {ShortDelay, LongDelay} : Restarts(delay)
    \/ DiscoveryFileDamaged

SpecDiscovery == InitWith({SingleEndpoints}) /\ [][NextDiscovery]_vars

-----------------------------------------------------------------------------
(* Recovery of an upstream.  From some moment between two cycles on, one   *)
(* endpoint of a domain, at or after its active index, succeeds whenever   *)
(* it is polled: it answers 200 or 304, or the file is read.  The moment   *)
(* is one at which a cycle is left to the domain and the rate limiter      *)
(* admits a request to the source of that endpoint, so that the endpoint   *)
(* is polled in the next cycle.  Subscribers register before polling       *)
(* starts, and polling is not stopped.                                     *)

RecoveryDomains == DOMAIN FallbackEndpoints

Heals(d, i) ==
    /\ running = None
    /\ polling_active
    /\ pc[d] = "sleep"
    /\ polls[d] < MaxPolls
    /\ ~healed[d].on
    /\ i >= domain_states[d].active_source_index
    /\ i < Len(Endpoints(d))
    /\ LET source == Endpoints(d)[i + 1].source_name
       IN CheckRateLimit(rate_limits[source], source, now)
    /\ healed' = [healed EXCEPT ![d] = [on |-> TRUE, attempt |-> i, at |-> polls[d]]]
    /\ UNCHANGED <<endpoints, polling_active, session, lifeVars, domain_states,
                   rate_limits, data_callbacks, taskVars, running, admitted,
                   watchVars, cacheVars, now, returned, parsing_rules, schema_cache,
                   legacyVars, startVars>>

NextRecovery ==
    \/ StartPolling
    \/ Advance
    \/ \E d \in Domains :
          ~polling_active /\ RegisterDataCallback(d, Subscribers[1])
    \/ \E d \in Domains : LoopIteration(d)
    \/ \E d \in Domains : PollEndpoint(d)
    \/ \E d \in Domains : HttpResponse(d)
    \/ \E d \in Domains : EndpointsExhausted(d)
    \/ \E d \in Domains : UpdateAndNotify(d)
    \/ \E d \in Domains : ErrorPauseOver(d)
    \/ \E d \in Domains, i \in 0..2 : Heals(d, i)

\* the event loop runs every task that is ready, a request ends with a
\* response or an error, and time passes
FairRecovery ==
    /\ WF_vars(Advance)
    /\ \A d \in RecoveryDomains :
          /\ WF_vars(LoopIteration(d))
          /\ WF_vars(PollEndpoint(d))
          /\ WF_vars(HttpResponse(d))
          /\ WF_vars(EndpointsExhausted(d))
          /\ WF_vars(UpdateAndNotify(d))
          /\ WF_vars(ErrorPauseOver(d))

SpecRecovery ==
    InitWith({FallbackEndpoints}) /\ [][NextRecovery]_vars /\ FairRecovery

-----------------------------------------------------------------------------
(* Properties *)

\* how an attempt may succeed: a 200 whose payload was cached, a 200 whose
\* cache write failed, a 304, a file read
Successes == {"ok", "unsaved", "not_modified", "file"}

\* some endpoint attempted in the latest cycle of d returned success
Succeeded(d) ==
    \E i \in DOMAIN attempts[d] : attempts[d][i].outcome \in Successes

\* the latest cycle of d is over (it completed or ended in an exception)
Ended(d) == cycle[d] \in {"completed", "raised"}

\* the latest cycle of d tried every endpoint from the active index onward
\* and none succeeded
Exhausted(d) == Ended(d) /\ attempts[d] # << >> /\ ~Succeeded(d)

\* C1: after a cycle in which some attempted endpoint returned success
\* (a parsed 200, a 304, a file read), active_source_index is 0 and
\* consecutive_failures is 0, whatever they were before the cycle.
C1_SuccessResetsFallback ==
    \A d \in Domains :
        Ended(d) /\ Succeeded(d) =>
            /\ domain_states[d].active_source_index = 0
            /\ domain_states[d].consecutive_failures = 0

\* a cycle that began on a fallback source with three failures counted has
\* ended with a success
C1_Witness ==
    \E d \in Domains :
        /\ Ended(d) /\ Succeeded(d)
        /\ before[d].active_source_index = 1
        /\ before[d].consecutive_failures >= 3

C3_ActiveIndexValid ==
    \A d \in Domains :
        IF Endpoints(d) = << >>
        THEN domain_states[d].active_source_index = 0
        ELSE /\ 0 <= domain_states[d].active_source_index
             /\ domain_states[d].active_source_index < Len(Endpoints(d))

\* three failures are counted while the index stands at the last endpoint
C3_Witness ==
    \E d \in Domains :
        /\ Endpoints(d) # << >>
        /\ domain_states[d].consecutive_failures >= 3
        /\ domain_states[d].active_source_index = Len(Endpoints(d)) - 1

\* C4: when every endpoint from the active index onward fails and the
\* domain holds a last good payload, the result is success, cached, carries
\* exactly that payload, and consecutive_failures is one higher than before.
C4_StaleFallback ==
    \A d \in Domains :
        Exhausted(d) /\ Truthy(before[d].cached_data) =>
            /\ poll_result[d].success
            /\ poll_result[d].cached
            /\ poll_result[d].data = before[d].cached_data
            /\ domain_states[d].consecutive_failures =
                   before[d].consecutive_failures + 1

\* a cycle of a domain holding a payload has exhausted its endpoints
C4_Witness ==
    \E d \in Domains :
        /\ Exhausted(d) /\ Truthy(before[d].cached_data)
        /\ cycle[d] = "completed"
        /\ before[d].consecutive_failures > 0

\* C5: when every endpoint fails and the domain holds no last good payload,
\* the result is a failure, no subscriber is notified, and the payload, the
\* last success time and the derived game state are what they were.
C5_HardFailure ==
    \A d \in Domains :
        Exhausted(d) /\ ~Truthy(before[d].cached_data) =>
            /\ ~poll_result[d].success
            /\ notified[d] = << >>
            /\ domain_states[d].cached_data = before[d].cached_data
            /\ domain_states[d].last_successful_poll = before[d].last_successful_poll
            /\ domain_states[d].game_state = before[d].game_state
            /\ domain_states[d].is_live_game = before[d].is_live_game
            /\ domain_states[d].intermission = before[d].intermission

\* a cycle of a domain with a subscriber and no payload has exhausted its
\* endpoints
C5_Witness ==
    \E d \in Domains :
        /\ Exhausted(d) /\ ~Truthy(before[d].cached_data)
        /\ cycle[d] = "completed"
        /\ data_callbacks[d] # << >>

\* C6 as stated: the subscribers of a domain are invoked in a cycle exactly
\* when the cycle's result is fresh (success, non-empty payload, not cached),
\* each for its own domain with the cycle's payload; a 304, a stale fallback
\* and a failure invoke nobody.  Stated on the step that ends a cycle.
C6_NotifiedIffFresh ==
    [][\A d \in Domains :
          pc[d] = "update" /\ pc'[d] # "update" =>
              notified'[d] =
                  IF IsFresh(poll_result[d])
                  THEN NotifyDataCallbacks(data_callbacks[d], d, poll_result[d].data)
                  ELSE << >>]_vars

\* a cycle of a domain with a subscriber produced a fresh payload, stored it
\* as the latest data, and ended in the exception path without invoking it
C6_Witness ==
    \E d \in Domains :
        /\ cycle[d] = "raised"
        /\ IsFresh(poll_result[d])
        /\ data_callbacks[d] # << >>
        /\ notified[d] = << >>
        /\ domain_states[d].cached_data = poll_result[d].data

\* the cycle of d is about to invoke its subscribers
AboutToNotify(d) ==
    /\ pc[d] = "update"
    /\ IsFresh(poll_result[d])
    /\ ~UpdateRaises(d, poll_result[d])
    /\ data_callbacks[d] # << >>

\* the poll key of the endpoint that produced the cycle's result
PollKey(d) == CacheKey(poll_result[d].source_name, d, poll_result[d].endpoint_url)

\* a cache get of the cycle's poll key returns the cycle's payload
CacheHoldsResult(d) ==
    LET entry == CacheGet(index, files, PollKey(d), now)
    IN entry.hit /\ entry.data = poll_result[d].data

\* the outcome of the endpoint attempted last in the latest cycle of d
LastOutcome(d) ==
    IF attempts[d] = << >> THEN "none" ELSE attempts[d][Len(attempts[d])].outcome

\* C7 as stated: whenever a cycle notifies, a cache get of the cycle's poll
\* key issued by a subscriber returns the payload it is notified about.
C7_AsStated ==
    \A d \in Domains : AboutToNotify(d) => CacheHoldsResult(d)

\* C7, amended: whenever a cycle notifies with a payload fetched by a 200
\* response whose cache write succeeded, the write is complete before the
\* first subscriber is invoked: a cache get of the cycle's poll key returns
\* that payload.  (A file endpoint writes nothing to the cache, and a
\* failed write leaves no entry or an older one.)
C7_CachedBeforeNotify ==
    \A d \in Domains :
        AboutToNotify(d) /\ LastOutcome(d) = "ok" => CacheHoldsResult(d)

\* a cycle whose 200 response was cached is about to notify
C7_Witness ==
    \E d \in Domains :
        AboutToNotify(d) /\ LastOutcome(d) = "ok" /\ CacheHoldsResult(d)

\* C8: for a source configured with rate_limit_per_minute N, at most N
\* attempts are admitted in any window of 60 seconds (t - 60, t], whichever
\* tasks make them, and every request in flight was admitted.
C8_RateLimitHolds ==
    /\ \A i \in DOMAIN DataSources :
          Len(admitted[DataSources[i].name]) <= DataSources[i].rate_limit_per_minute
    /\ \A d \in Domains :
          pc[d] = "fetch" =>
              \E k \in DOMAIN admitted[Endpoints(d)[attempt[d] + 1].source_name] :
                  admitted[Endpoints(d)[attempt[d] + 1].source_name][k]
                      = request[d].sent_at

\* the source has its N admissions in the window, one of them made by
\* another task less than 60 seconds ago, and an attempt has just been
\* rejected
C8_Witness ==
    \E d \in Domains, e \in Domains :
        /\ d # e
        /\ running = d /\ LastOutcome(d) = "rate_limited"
        /\ Ended(e) /\ LastOutcome(e) \in {"ok", "failed", "not_modified"}
        /\ Endpoints(e)[1].source_name = NhlOfficial
        /\ now - domain_states[e].last_poll_time < 60
        /\ Len(admitted[NhlOfficial]) = NhlRateLimit

\* every endpoint attempted in the latest cycle of d was turned away by the
\* rate limiter
OnlyRateLimited(d) ==
    /\ Ended(d) /\ attempts[d] # << >>
    /\ \A i \in DOMAIN attempts[d] : attempts[d][i].outcome = "rate_limited"

\* C9 as stated: a cycle in which every attempted endpoint was only
\* rate-limited leaves consecutive_failures and active_source_index
\* unchanged.
C9_RateLimitedNotCounted ==
    \A d \in Domains :
        OnlyRateLimited(d) =>
            /\ domain_states[d].consecutive_failures = before[d].consecutive_failures
            /\ domain_states[d].active_source_index = before[d].active_source_index

\* a cycle in which the only endpoint was rate-limited has raised the
\* failure count
C9_Witness ==
    \E d \in Domains :
        /\ OnlyRateLimited(d)
        /\ domain_states[d].consecutive_failures =
               before[d].consecutive_failures + 1

\* the request in flight for d carries the validators of the latest write
\* under its key
CarriesValidators(d) ==
    LET stored == last_set[request[d].key]
    IN /\ stored.etag # None => request[d].headers.if_none_match = stored.etag
       /\ stored.last_modified # None =>
              request[d].headers.if_modified_since = stored.last_modified

\* C10 as stated: once a 200 response with an ETag (Last-Modified) has been
\* cached under a key, the next request for that key carries If-None-Match
\* (If-Modified-Since) equal to the stored value.
C10_AsStated ==
    \A d \in Domains :
        pc[d] = "fetch" /\ last_set[request[d].key].written => CarriesValidators(d)

\* C10, amended: ... provided the cached entry has not expired when the
\* request is built and its file has not been damaged by a later failed
\* write.
C10_ValidatorsWhileCached ==
    \A d \in Domains :
        /\ pc[d] = "fetch"
        /\ last_set[request[d].key].written
        /\ last_set[request[d].key].intact
        /\ request[d].sent_at <= last_set[request[d].key].expires_at
        => CarriesValidators(d)

\* a request in flight carries the ETag cached by an earlier response
C10_Witness ==
    \E d \in Domains :
        /\ pc[d] = "fetch"
        /\ last_set[request[d].key].written
        /\ last_set[request[d].key].etag # None
        /\ request[d].headers.if_none_match = last_set[request[d].key].etag

\* the step in which the task of d receives a 304
NotModifiedStep(d) ==
    /\ pc[d] = "fetch" /\ pc'[d] = "update"
    /\ poll_result'[d].http_status = 304

\* the cache is what it was, under every key
CacheUntouched == index' = index /\ files' = files

\* parse_data was called in the latest cycle of d: by a 200 or a file read
ParserInvoked(d) ==
    \E i \in DOMAIN attempts[d] : attempts[d][i].outcome \in {"ok", "unsaved", "file"}

\* C11 as stated: every 304 gives a result with success and cached set
\* whose payload is the payload cached before under the poll key; the
\* parser is not invoked and the cache entry of the key is left as it is.
C11_AsStated ==
    [][\A d \in Domains :
          NotModifiedStep(d) =>
              /\ poll_result'[d].success /\ poll_result'[d].cached
              /\ last_set[request[d].key].written
              /\ poll_result'[d].data = last_set[request[d].key].data
              /\ CacheUntouched]_vars

\* C11, amended: every 304 that answers a request built from a cache hit
\* gives a result with success and cached set whose payload is that entry's
\* payload, the payload written last under the poll key; the parser is not
\* invoked for it and the cache (payload, etag, last-modified, expiry of
\* every key) is left as it is.
C11_NotModifiedServesCache ==
    [][\A d \in Domains :
          NotModifiedStep(d) /\ request[d].cached_entry.hit =>
              /\ poll_result'[d].success /\ poll_result'[d].cached
              /\ poll_result'[d].data = request[d].cached_entry.data
              /\ poll_result'[d].data = last_set[request[d].key].data
              /\ poll_result'[d].data = CacheGet(index', files', request[d].key, now').data
              /\ ~ParserInvoked(d)'
              /\ CacheUntouched]_vars

\* a 304 has answered a request that carried the validator of a cached
\* entry, and the cycle's result is that entry's payload
C11_Witness ==
    \E d \in Domains :
        /\ pc[d] = "update" /\ poll_result[d].http_status = 304
        /\ Truthy(poll_result[d].data)
        /\ CacheHoldsResult(d)
        /\ last_set[PollKey(d)].etag # None

\* the attempts of the latest cycle of d that decoded a 200 response
Decoded(d) == {i \in DOMAIN attempts[d] : attempts[d][i].outcome \in {"ok", "unsaved"}}

\* C12 as stated: a 200 response whose decoded payload lacks the required
\* structure of the domain is not accepted as a success of its endpoint:
\* no attempt that ended in success decoded such a payload (so the poller
\* went on to the next endpoint and nothing of it was cached or published).
C12_InvalidNotAccepted ==
    \A d \in Domains : \A i \in Decoded(d) :
        ValidateResponseStructure(attempts[d][i].raw_data, d)

\* a 200 response without the required top-level keys has ended a cycle as
\* a success while a further endpoint was left untried; what parse_data made
\* of it is in the cache and has been handed to a subscriber
C12_Witness ==
    \E d \in Domains :
        /\ cycle[d] = "completed" /\ LastOutcome(d) = "ok"
        /\ ~ValidateResponseStructure(attempts[d][Len(attempts[d])].raw_data, d)
        /\ attempts[d][Len(attempts[d])].attempt < Len(Endpoints(d)) - 1
        /\ CacheHoldsResult(d)
        /\ notified[d] # << >>
        /\ notified[d][1].data = poll_result[d].data

\* C13 as stated: every payload handed to a subscriber or returned by
\* get_latest_data carries _source_info.
C13_OnlyNormalizedDelivered ==
    \A d \in Domains :
        /\ \A i \in DOMAIN notified[d] : HasSourceInfo(notified[d][i].data)
        /\ domain_states[d].cached_data # NoData =>
               HasSourceInfo(domain_states[d].cached_data)

\* a subscriber has been handed the raw body of a source for which no rule
\* set is found, and get_latest_data returns it
C13_Witness ==
    \E d \in Domains :
        /\ cycle[d] = "completed" /\ notified[d] # << >>
        /\ ~HasSourceInfo(notified[d][1].data)
        /\ notified[d][1].data = attempts[d][Len(attempts[d])].raw_data
        /\ GetParsingRules(d, poll_result[d].source_name) = None
        /\ domain_states[d].cached_data = notified[d][1].data

\* the latest attempt of d called parse_data, and the cycle's result holds
\* what it returned
JustParsed(d) ==
    /\ pc[d] = "update"
    /\ LastOutcome(d) \in {"ok", "unsaved", "file"}

\* C14 as stated: whatever the payload, the domain and the source, also
\* when no rule set exists or normalization fails, parse_data returns a
\* dict-like value, and the raw payload unchanged when normalization fails.
C14_ParseReturnsDict ==
    \A d \in Domains :
        JustParsed(d) =>
            LET raw_data == attempts[d][Len(attempts[d])].raw_data
                rules == GetParsingRules(d, poll_result[d].source_name)
            IN /\ poll_result[d].data = ParseData(raw_data, d, poll_result[d].source_name)
               /\ IsDict(poll_result[d].data)
               /\ rules = None \/ ApplyRulesRaises(raw_data, rules) =>
                      poll_result[d].data = raw_data

\* parse_data has handed back a raw body that is not a dict
C14_Witness ==
    \E d \in Domains :
        /\ JustParsed(d)
        /\ ~IsDict(poll_result[d].data)
        /\ poll_result[d].data = attempts[d][Len(attempts[d])].raw_data

\* the cancellation requested by stop_polling reaches the task of d
CancellationDelivered(d) == d \in cancel_requested /\ d \notin cancel_requested'

\* stop_polling has returned, or polling was never started
Stopped == ~polling_active /\ ~stopping

\* C15: for each domain at most one poll cycle is in progress at any time:
\* a cycle starts only from the top of the loop, when the previous cycle of
\* the domain has ended (its update and notification done, or the cycle
\* cancelled), and start_polling called while polling is active creates no
\* second loop, so no domain ever has more than one loop task.
C15_OneCyclePerDomain ==
    [][\A d \in Domains :
          /\ poll_tasks'[d] <= 1
          /\ polls'[d] # polls[d] =>
                 /\ pc[d] = "sleep"
                 /\ cycle[d] \in {"never", "completed", "raised", "cancelled"}
                 /\ poll_tasks[d] = 1]_vars

\* polling runs again after a stop, a cycle of a domain is in flight, its
\* second or later, and a call of start_polling would find polling active
C15_Witness ==
    \E d \in Domains :
        /\ polling_active /\ ~stopping /\ running = None
        /\ stops >= 1
        /\ pc[d] = "fetch" /\ cycle[d] = "running"
        /\ polls[d] >= 2
        /\ poll_tasks[d] = 1

\* C16: stop_polling cancels the task of every domain and closes the
\* session only when every task has ended; from its return until polling
\* is started again no domain state changes, no request is sent, nothing
\* is cached and no subscriber is invoked.
C16_StopQuiesces ==
    [][/\ polling_active /\ ~polling_active' => cancel_requested' = Domains
       /\ session /\ ~session' =>
              \A d \in Domains : poll_tasks[d] = 0 /\ pc[d] = "none"
       /\ Stopped /\ Stopped' =>
              UNCHANGED <<domain_states, request, rate_limits, admitted,
                          cacheVars, notified, polls, pc>>]_vars

\* stop_polling has returned after cancelling a cycle that was awaiting
\* its response and a task that was sleeping
C16_Witness ==
    /\ Stopped /\ ~session /\ stops >= 1
    /\ \E d \in Domains : cycle[d] = "cancelled"
    /\ \E d \in Domains : cycle[d] = "completed"
    /\ \A d \in Domains : pc[d] = "none" /\ poll_tasks[d] = 0

\* C17: a task cancelled while it sleeps or awaits its response leaves the
\* loop at once: the request in flight is dropped, and the step changes
\* neither the cache nor any domain state nor any result, and notifies
\* nobody; a cycle cancelled at its request has left the domain state as
\* it was when the cycle began and has notified no subscriber.
C17_CancelledCycleHasNoEffect ==
    [][\A d \in Domains :
          /\ CancellationDelivered(d) =>
                 /\ pc'[d] = "none"
                 /\ request'[d] = NoRequest
                 /\ pc[d] = "fetch" => cycle'[d] = "cancelled"
                 /\ UNCHANGED <<domain_states, cacheVars, poll_result, notified,
                                attempts, rate_limits>>
          /\ cycle'[d] = "cancelled" =>
                 /\ domain_states'[d] = before'[d]
                 /\ notified'[d] = << >>]_vars

\* a cycle was cancelled while its request was in flight, after an
\* earlier cycle of the domain had stored a payload
C17_Witness ==
    \E d \in Domains :
        /\ cycle[d] = "cancelled"
        /\ request[d] = NoRequest
        /\ polls[d] >= 2
        /\ Truthy(domain_states[d].cached_data)


\* C18: a task that waits for a slow response, sleeps until its next poll
\* or pauses after an error keeps no other domain waiting: whenever another
\* domain's task is at the top of its loop with its poll time (last poll
\* time + current interval) reached, that task can start its cycle.
C18_StalledDomainDelaysNoOther ==
    \A d, e \in Domains :
        /\ d # e
        /\ polling_active
        /\ pc[d] \in {"fetch", "sleep", "pause"}
        /\ pc[e] = "sleep"
        /\ e \notin cancel_requested
        /\ now >= NextPollTime(domain_states[e])
        /\ polls[e] < MaxPolls
        => ENABLED LoopIteration(e)

\* a request has been in flight for some time, and in that time another
\* domain began a cycle and sent its own request
C18_Witness ==
    \E d, e \in Domains :
        /\ d # e
        /\ pc[d] = "fetch" /\ pc[e] = "fetch"
        /\ now > request[d].sent_at
        /\ request[e].sent_at > request[d].sent_at

\* get_polling_stats()['domains'][d], the fields that tell of staleness
GetPollingStats(d) ==
    [last_poll_time |-> domain_states[d].last_poll_time,
     last_successful_poll |-> domain_states[d].last_successful_poll,
     consecutive_failures |-> domain_states[d].consecutive_failures,
     has_cached_data |-> domain_states[d].cached_data # NoData]

\* C19: the last_successful_poll that get_polling_stats reports moves only
\* in a cycle in which some endpoint fetch succeeded; a cycle in which
\* every attempted endpoint failed leaves it as it was, also when the
\* cycle served the last good payload.
C19_StampOnlyOnFetchSuccess ==
    \A d \in Domains :
        Ended(d) /\ ~Succeeded(d) =>
            GetPollingStats(d).last_successful_poll = before[d].last_successful_poll

\* every endpoint failed in a cycle that had a last good payload to serve,
\* and the reported time of the last successful poll is the time of that
\* cycle
C19_Witness ==
    \E d \in Domains :
        /\ Exhausted(d)
        /\ cycle[d] = "completed"
        /\ Truthy(before[d].cached_data)
        /\ GetPollingStats(d).last_successful_poll > before[d].last_successful_poll
        /\ GetPollingStats(d).last_successful_poll = GetPollingStats(d).last_poll_time

\* C20: after a cycle of live_game that obtained a game list, the interval
\* is the fast one when some game of the list is live and not in an
\* intermission, the slow one when the live games are in intermission, the
\* pregame one when no game is live and some are scheduled, the postgame
\* one when games have concluded, and the offline one only when the list
\* has no game.
C20_IntervalFollowsGames ==
    \A d \in Domains :
        d = "live_game" /\ cycle[d] = "completed" /\ IsFresh(poll_result[d]) =>
            LET games == GamesOf(poll_result[d].data)
                Some(P(_)) == \E i \in DOMAIN games : P(games[i])
                InPlay(g) == IsLive(g) /\ ~g.inIntermission
                interval == domain_states[d].current_interval
            IN /\ Some(InPlay) => interval = LiveGameFast
               /\ Some(IsLive) /\ ~Some(InPlay) => interval = LiveGameSlow
               /\ ~Some(IsLive) /\ Some(IsUpcoming) => interval = Pregame
               /\ ~Some(IsLive) /\ ~Some(IsUpcoming) /\ Some(IsFinal) =>
                      interval = Postgame
               /\ interval = Offline => games = << >>

\* a cycle has obtained a list whose first live game is in intermission
\* and whose second is in play, and the interval is the slow one
C20_Witness ==
    \E d \in Domains :
        /\ d = "live_game" /\ cycle[d] = "completed" /\ IsFresh(poll_result[d])
        /\ poll_result[d].data = PBreakAndPlay
        /\ domain_states[d].is_live_game /\ domain_states[d].intermission
        /\ domain_states[d].current_interval = LiveGameSlow

\* C21: a get that follows at once a set of the same key that returned
\* True returns an entry with the payload, the etag and the last-modified
\* just written, whatever the key held before the set.
C21_SetThenGet ==
    returned.op = "get" /\ returned.follows.op = "set"
    /\ returned.follows.key = returned.key /\ returned.follows.value =>
        returned.value = [hit |-> TRUE, data |-> returned.follows.data,
                          etag |-> returned.follows.etag,
                          last_modified |-> returned.follows.last_modified]

\* a set has replaced a readable entry with another payload and other
\* validators, and the get after it has returned the new ones
C21_Witness ==
    /\ returned.op = "get" /\ returned.follows.op = "set"
    /\ returned.follows.key = returned.key /\ returned.follows.value
    /\ returned.follows.previous.hit
    /\ returned.follows.previous.data # returned.follows.data
    /\ returned.follows.previous.etag # returned.follows.etag
    /\ returned.value.data = returned.follows.data

\* the get at hand found its key in the index with the expiry passed
GetOfExpired ==
    /\ returned.op = "get"
    /\ returned.entry_info.present
    /\ returned.at > returned.entry_info.expires_at

Unsaved(d) ==
    /\ attempts[d] # << >>
    /\ attempts[d][Len(attempts[d])].outcome = "unsaved"

\* C24: when the cache write of a 200 fails, the cycle goes on as without
\* a cache: its result is a success, not cached, with the payload
\* parse_data made of the body; the update stamps the poll and the
\* success, stores a non-empty payload as the latest data, and, unless the
\* update itself raises, every subscriber of the domain is invoked with
\* that payload.
C24_CacheFailureTolerated ==
    [][\A d \in Domains :
          Unsaved(d) /\ pc[d] = "update" /\ pc'[d] # "update" =>
              LET tried == attempts[d][Len(attempts[d])]
                  source == Endpoints(d)[tried.attempt + 1].source_name
                  data == ParseData(tried.raw_data, d, source)
              IN /\ poll_result[d].success /\ ~poll_result[d].cached
                 /\ poll_result[d].data = data
                 /\ domain_states'[d].last_poll_time = now
                 /\ domain_states'[d].last_successful_poll = now
                 /\ domain_states'[d].consecutive_failures = 0
                 /\ Truthy(data) => domain_states'[d].cached_data = data
                 /\ Truthy(data) /\ ~UpdateRaises(d, poll_result[d]) =>
                        /\ cycle'[d] = "completed"
                        /\ notified'[d] =
                               NotifyDataCallbacks(data_callbacks[d], d, data)]_vars

\* a cycle whose cache write failed has completed, stored the payload and
\* invoked a subscriber with it, and the cache holds nothing readable
C24_Witness ==
    \E d \in Domains :
        /\ Unsaved(d) /\ cycle[d] = "completed"
        /\ Truthy(poll_result[d].data)
        /\ domain_states[d].cached_data = poll_result[d].data
        /\ notified[d] # << >>
        /\ notified[d][1].data = poll_result[d].data
        /\ \A k \in CacheKeys : ~CacheGet(index, files, k, now).hit

-----------------------------------------------------------------------------
\* C25: the structural change score compare_fingerprints returns is the
\* number of key paths that are new, removed or of another type, over the
\* number of key paths of both fingerprints together; it lies in [0,1],
\* is 0 for two identical fingerprints and 1 for a fingerprint with keys
\* compared, either way round, with the empty one
C25_ChangeScore ==
    returned.op = "compare_fingerprints" =>
        LET old == returned.old
            new == returned.new
            changes == returned.value
            both == old.key_paths \cup new.key_paths
            differing == { k \in both :
                             \/ k \notin old.key_paths
                             \/ k \notin new.key_paths
                             \/ old.type_signatures[k] # new.type_signatures[k] }
        IN /\ changes.total_keys = Cardinality(both)
           /\ both # {} => changes.changed_keys = Cardinality(differing)
           /\ 0 <= changes.changed_keys /\ changes.changed_keys <= changes.total_keys
           /\ old = new => changes.changed_keys = 0
           /\ (old = EmptyFingerprint) # (new = EmptyFingerprint) =>
                  changes.total_keys > 0 /\ changes.changed_keys = changes.total_keys

\* two fingerprints with a new key, a removed key and a key of another
\* type have been compared: the score is strictly between 0 and 1
C25_Witness ==
    /\ returned.op = "compare_fingerprints"
    /\ returned.value.new_keys # {}
    /\ returned.value.removed_keys # {}
    /\ returned.value.type_changes # {}
    /\ 0 < returned.value.changed_keys
    /\ returned.value.changed_keys < returned.value.total_keys

\* a parse of a payload in which awayTeam.abbrev has become
\* awayTeam.triCode, with the old path in the stored fingerprint and a
\* change score above 0.1
RenamedParse(call) ==
    /\ call.op = "parse_data"
    /\ call.cached_fingerprint.stored
    /\ <<"awayTeam", "abbrev">> \in call.cached_fingerprint.fingerprint.key_paths
    /\ <<"awayTeam", "triCode">> \in DOMAIN call.raw_data.top
    /\ <<"awayTeam", "abbrev">> \notin DOMAIN call.raw_data.top
    /\ DriftDetected(call.changes)

\* a parse has put the value of awayTeam.triCode into awayTeam.abbrev and
\* has not reported the field missing
Populated(call) ==
    /\ <<"awayTeam", "abbrev">> \in DOMAIN call.value.data.top
    /\ call.value.data.top[<<"awayTeam", "abbrev">>] =
           call.raw_data.top[<<"awayTeam", "triCode">>]
    /\ <<"awayTeam", "abbrev">> \notin call.value.missing

\* the rule of the parser that fills awayTeam.abbrev
AwayAbbrevRule(rules) ==
    rules[CHOOSE i \in DOMAIN rules : rules[i].target_path = <<"awayTeam", "abbrev">>]

\* C26 as stated: the parse that meets the renamed field rewrites the
\* source path of the rule to awayTeam.triCode and fills awayTeam.abbrev
\* without reporting it missing, and so does the parse of the new shape
\* that comes next
C26_RenamedFieldFollowed ==
    [][ /\ RenamedParse(returned') =>
               /\ AwayAbbrevRule(parsing_rules').source_path = <<"awayTeam", "triCode">>
               /\ Populated(returned')
        /\ ( /\ RenamedParse(returned)
             /\ returned'.op = "parse_data"
             /\ returned'.raw_data = returned.raw_data ) => Populated(returned') ]_vars

\* the renamed field has been met in a payload whose home team still has
\* abbrev: the rule now reads homeTeam.abbrev and the away team has been
\* given the abbreviation of the home team
C26_Witness ==
    /\ RenamedParse(returned)
    /\ AwayAbbrevRule(parsing_rules).source_path = <<"homeTeam", "abbrev">>
    /\ returned.value.data.top[<<"awayTeam", "abbrev">>] = Str("BOS")
    /\ returned.raw_data.top[<<"awayTeam", "triCode">>] = Str("TOR")

\* C27: with the rules as constructed, normalizing a payload of the
\* official format with n well-formed games gives n games in the same
\* order, each with the awayTeam.abbrev, homeTeam.abbrev and gameState of
\* its input, score and sog 0 for a team whose input has none, and a
\* top-level gameDate
C27_OfficialPayloadNormalized ==
    ( /\ returned.op = "parse_data"
      /\ returned.raw_data \in OfficialPayloads
      /\ returned.rules = NhlOfficialGameRules ) =>
        LET raw == returned.raw_data.games
            games == returned.value.data.games
        IN /\ returned.value.data.has_games
           /\ Len(games) = Len(raw)
           /\ \A i \in DOMAIN raw :
                /\ \A p \in { <<"awayTeam", "abbrev">>, <<"homeTeam", "abbrev">>,
                              <<"gameState">> } :
                       p \in DOMAIN games[i] /\ games[i][p] = raw[i][p]
                /\ \A p \in { <<"awayTeam", "score">>, <<"awayTeam", "sog">>,
                              <<"homeTeam", "score">>, <<"homeTeam", "sog">> } :
                       /\ p \in DOMAIN games[i]
                       /\ games[i][p] = IF p \in DOMAIN raw[i] THEN raw[i][p]
                                        ELSE Number("0")
           /\ <<"gameDate">> \in DOMAIN returned.value.data.top

\* two different games, the first without the shots of either team, have
\* been normalized
C27_Witness ==
    /\ returned.op = "parse_data"
    /\ returned.raw_data \in OfficialPayloads
    /\ returned.rules = NhlOfficialGameRules
    /\ returned.value.normalized
    /\ Len(returned.raw_data.games) = 2
    /\ returned.raw_data.games[1] # returned.raw_data.games[2]
    /\ <<"awayTeam", "sog">> \notin DOMAIN returned.raw_data.games[1]
    /\ <<"homeTeam", "score">> \notin DOMAIN returned.raw_data.games[1]
    /\ returned.value.data.games[1][<<"homeTeam", "score">>] = Number("0")

\* C28: the endpoints attempted in a cycle are, in list order and without
\* a gap, those from the active_source_index the cycle started with: none
\* below it, none after one that succeeded, and, once the cycle is over
\* without a success, every one up to the end of the list
C28_AttemptsFormPrefix ==
    \A d \in Domains :
        LET tried == attempts[d]
            first == before[d].active_source_index
        IN /\ \A i \in DOMAIN tried :
                  /\ tried[i].attempt = first + i - 1
                  /\ tried[i].attempt < Len(Endpoints(d))
                  /\ i < Len(tried) => tried[i].outcome \notin Successes
           /\ Ended(d) /\ Endpoints(d) # << >> /\ ~Succeeded(d) =>
                  Len(tried) = Len(Endpoints(d)) - first

\* a cycle that started at the second endpoint is over: that endpoint
\* failed and the third, tried next, succeeded
C28_Witness ==
    \E d \in Domains :
        /\ Ended(d)
        /\ before[d].active_source_index = 1
        /\ Len(attempts[d]) = 2
        /\ attempts[d][1].attempt = 1 /\ attempts[d][1].outcome \notin Successes
        /\ attempts[d][2].attempt = 2 /\ attempts[d][2].outcome \in Successes

\* the latest cycle of d got an unsuccessful result from every endpoint
\* from the active index it started with to the end of the list
EveryEndpointFailed(d) ==
    /\ Len(attempts[d]) = Len(Endpoints(d)) - before[d].active_source_index
    /\ \A i \in DOMAIN attempts[d] : attempts[d][i].outcome \notin Successes

JustHealed(d) == healed[d].on /\ polls[d] = healed[d].at

\* a cycle of d that started after the endpoint began to answer well is
\* over and has left the domain on its primary source without failures
Recovered(d) ==
    /\ healed[d].on
    /\ polls[d] > healed[d].at
    /\ Ended(d)
    /\ domain_states[d].active_source_index = 0
    /\ domain_states[d].consecutive_failures = 0

\* the latest cycle of d has handed its payload to the subscribers
Published(d) ==
    /\ notified[d] # << >>
    /\ \A i \in DOMAIN notified[d] : notified[d][i].data = poll_result[d].data

-----------------------------------------------------------------------------
(* get_latest_data *)

\* get_latest_data(domain)
GetLatestData(states, d) ==
    IF d \in DOMAIN states THEN states[d].cached_data ELSE NoData

\* the fields _update_game_state derives from a payload
DerivedGameState(st) ==
    [game_state |-> st.game_state, is_live_game |-> st.is_live_game,
     intermission |-> st.intermission]

\* the step ends _update_domain_state of a cycle of d whose result passes
\* `poll_result.success and poll_result.data and not poll_result.cached`
FreshCycleEnds(d) ==
    pc[d] = "update" /\ pc'[d] # "update" /\ IsFresh(poll_result[d])

\* C31: get_latest_data returns nothing before the first cycle with a fresh
\* result and from then on the payload of the latest such cycle: a step
\* that ends a fresh cycle stores its payload, every other step (a cycle
\* ending in a 304, in the stale fallback or in a failure included) leaves
\* the stored payload and the derived game state as they were, and every
\* subscriber is notified of the payload get_latest_data returns
C31_LatestDataIsLastFresh ==
    /\ \A d \in Domains : GetLatestData(domain_states, d) = NoData
    /\ [][ \A d \in Domains :
              /\ FreshCycleEnds(d) =>
                    GetLatestData(domain_states', d) = poll_result[d].data
              /\ ~FreshCycleEnds(d) =>
                    /\ GetLatestData(domain_states', d) = GetLatestData(domain_states, d)
                    /\ DerivedGameState(domain_states'[d]) = DerivedGameState(domain_states[d])
              /\ notified'[d] # notified[d] =>
                    \A i \in DOMAIN notified'[d] :
                        notified'[d][i].data = GetLatestData(domain_states', d) ]_vars

\* a domain that holds the payload of an earlier cycle has ended a cycle
\* with a 304 or with the stale fallback and holds it still, after its
\* subscribers were notified of another payload before
C31_Witness ==
    \E d \in Domains :
        /\ cycle[d] = "completed"
        /\ pc[d] = "sleep"
        /\ poll_result[d].success /\ poll_result[d].cached
        /\ Truthy(GetLatestData(domain_states, d))
        /\ GetLatestData(domain_states, d) = before[d].cached_data
        /\ data_callbacks[d] # << >>
        /\ polls[d] >= 2

-----------------------------------------------------------------------------
(* Payloads with an empty main array *)

\* parse_data was called with a payload whose 'games' is an empty list
EmptyArrayParsed ==
    /\ returned.op = "parse_data"
    /\ returned.raw_data.has_games
    /\ returned.raw_data.games = << >>

\* C32: parse_data of a payload with an empty list of games returns the
\* normalized shape: marked with _source_info and with an empty list of
\* games
C32_EmptyArrayNormalized ==
    EmptyArrayParsed =>
        /\ returned.value.normalized
        /\ returned.value.data.has_games
        /\ returned.value.data.games = << >>

\* parse_data of a payload with an empty list of games has returned the
\* payload as it was handed over, without _source_info
C32_Witness ==
    /\ EmptyArrayParsed
    /\ ~returned.value.normalized
    /\ returned.value.data = returned.raw_data

-----------------------------------------------------------------------------
(* The fingerprint after a parse *)

\* parse_data has returned a normalized payload
NormalizedParse == returned.op = "parse_data" /\ returned.value.normalized

\* C33: after a parse_data call that returned a normalized payload the
\* stored fingerprint is the one of that call's raw payload, whether or
\* not one was stored before, and update_schema_fingerprint returns no
\* diff exactly when no fingerprint was stored before
C33_FingerprintFollowsParse ==
    /\ NormalizedParse =>
          schema_cache = Stored(CreateSchemaFingerprint(returned.raw_data))
    /\ returned.op = "update_schema_fingerprint" =>
          (~returned.diff.given <=> ~returned.cached_fingerprint.stored)

\* parse_data has returned a normalized payload when no fingerprint was
\* stored, and none is stored after it
C33_Witness ==
    /\ NormalizedParse
    /\ ~returned.cached_fingerprint.stored
    /\ ~schema_cache.stored

-----------------------------------------------------------------------------
(* The fingerprint after a validation *)

\* C34: a validation that succeeds, of a networked endpoint or of a local
\* file, stores the fingerprint of the validated response, and one that
\* fails leaves the stored fingerprint, or the lack of one, as it was
C34_ValidationStoresFingerprint ==
    [][ returned'.op = "validate_endpoint" =>
            IF returned'.value
            THEN schema_cache' = Stored(CreateSchemaFingerprint(returned'.answer.data))
            ELSE schema_cache' = schema_cache ]_vars

\* the validation of a local file has succeeded and the fingerprint of the
\* file's content is not the one stored
C34_Witness ==
    /\ returned.op = "validate_endpoint"
    /\ returned.file
    /\ returned.value
    /\ returned.answer.data.games # << >>
    /\ schema_cache # Stored(CreateSchemaFingerprint(returned.answer.data))

-----------------------------------------------------------------------------
(* What drift adaptation does to the rules *)

\* the target paths of a rule list, in order
TargetPaths(rules) == [i \in DOMAIN rules |-> rules[i].target_path]

\* the structural change score of the call exceeded 0.1 against a stored
\* fingerprint
ParsedUnderDrift(call) ==
    /\ call.cached_fingerprint.stored
    /\ call.changes.total_keys > 0
    /\ 10 * call.changes.changed_keys > call.changes.total_keys

\* C35: the rule lists of both sources keep the length and the target paths
\* they were constructed with; the rules of a source change only in a
\* parse_data call for that source whose structural change score exceeds
\* 0.1, so never in a call for the other source
C35_RulesOnlyAdapted ==
    [][ /\ TargetPaths(parsing_rules') = TargetPaths(NhlOfficialGameRules)
        /\ TargetPaths(legacy_rules') = TargetPaths(NhlOfficialGameRules)
        /\ parsing_rules' # parsing_rules =>
              returned'.op = "parse_data" /\ ParsedUnderDrift(returned')
        /\ legacy_rules' # legacy_rules =>
              returned'.op = "parse_data_legacy" /\ ParsedUnderDrift(returned') ]_vars

\* a parse for nhl_legacy has changed the source path of a rule, the rules
\* of nhl_official are as constructed, and a payload for nhl_official that
\* lacks one field of the ten of the stored fingerprint has just been
\* parsed
C35_Witness ==
    /\ \E i \in DOMAIN legacy_rules :
          legacy_rules[i].source_path # NhlOfficialGameRules[i].source_path
    /\ parsing_rules = NhlOfficialGameRules
    /\ returned.op = "parse_data"
    /\ returned.cached_fingerprint.stored
    /\ returned.changes.changed_keys = 1
    /\ returned.changes.total_keys = 10

-----------------------------------------------------------------------------
(* Start-up discovery *)

\* the cached discovery result a start-up finds: the index holds the key,
\* its expiry has not passed and the file behind it can be read
UnexpiredDiscovery ==
    /\ discovery_cache.index["discovery_results"].present
    /\ now <= discovery_cache.index["discovery_results"].expires_at
    /\ discovery_cache.files["discovery_results"].state = "ok"

CachedEndpoints == discovery_cache.files["discovery_results"].data

\* a result of full discovery: every endpoint was found at the time of the
\* call and is marked valid
FreshlyDiscovered(call) ==
    \A domain \in DiscoveryDomains : \A i \in 1..Len(call.value[domain]) :
        /\ call.value[domain][i].last_validated = call.at
        /\ call.value[domain][i].validation_success

\* the endpoints of the call are the cached ones, in the same order, and
\* one that differs from its cached copy was validated more than an hour
\* before the call
KeptAndRefreshed(call, cached) ==
    \A domain \in DiscoveryDomains :
        /\ Len(call.value[domain]) = Len(cached[domain])
        /\ \A i \in 1..Len(cached[domain]) :
              /\ call.value[domain][i].url = cached[domain][i].url
              /\ call.value[domain][i].source_name = cached[domain][i].source_name
              /\ call.value[domain][i] # cached[domain][i]
                    => call.at - cached[domain][i].last_validated > 3600

\* C36: run_discovery performs full discovery exactly when no unexpired
\* cached discovery result exists or the cached result holds no endpoints;
\* otherwise it returns the cached endpoints, none added and none removed,
\* and has revalidated only those whose last validation is older than one
\* hour.
C36_FullOrRefresh ==
    [][returned'.op = "run_discovery" =>
          LET useful == UnexpiredDiscovery /\ TotalEndpoints(CachedEndpoints) > 0
          IN /\ returned'.at = now
             /\ returned'.full = ~useful
             /\ ~useful => FreshlyDiscovered(returned')
             /\ useful => KeptAndRefreshed(returned', CachedEndpoints)]_vars

\* a start-up found three cached endpoints, all validated more than an hour
\* before, and revalidated them: one passed and one did not
C36_Witness ==
    /\ returned.op = "run_discovery"
    /\ ~returned.full
    /\ LET cached == returned.cached_entry.data["live_game"]
           value == returned.value["live_game"]
       IN /\ Len(cached) = 3
          /\ \E i, j \in 1..3 :
                /\ returned.at - cached[i].last_validated > 3600
                /\ value[i].last_validated = returned.at
                /\ returned.at - cached[j].last_validated > 3600
                /\ value[j] = cached[j]

-----------------------------------------------------------------------------
(* Cache housekeeping *)

\* a scan removes the keys whose expiry has passed and leaves the others as
\* they are, in the index and on disk
ScanRemovesExpired ==
    \A k \in ApiKeys :
        /\ (index[k].present /\ now > index[k].expires_at) => ~index'[k].present
        /\ (index[k].present /\ now <= index[k].expires_at) =>
              /\ index'[k] = index[k]
              /\ files'[k] = files[k]
              /\ CacheGet(index', files', k, now') = CacheGet(index, files, k, now)
        /\ ~index[k].present => ~index'[k].present

-----------------------------------------------------------------------------
(* A subscriber that raises *)

\* C38: an exception raised by one subscriber during notification does not
\* stop delivery: every subscriber registered for the domain is invoked
\* for that update, in registration order, and the loop of the domain goes
\* on to its next cycle without the pause that follows an error.
C38_RaisingSubscriberSkipped ==
    [][\A d \in Domains :
          (FreshCycleEnds(d) /\ cycle'[d] # "raised") =>
              /\ Len(notified'[d]) = Len(data_callbacks[d])
              /\ \A i \in 1..Len(data_callbacks[d]) :
                    /\ notified'[d][i].callback = data_callbacks[d][i]
                    /\ notified'[d][i].data = poll_result[d].data
              /\ pc'[d] = "sleep"
              /\ cycle'[d] = "completed"
              /\ error_wake'[d] = error_wake[d]]_vars

\* the first of two subscribers raised, the second was invoked after it,
\* and the domain waits for its next cycle
C38_Witness ==
    \E d \in Domains :
        /\ Len(notified[d]) = 2
        /\ notified[d][1].raised
        /\ ~notified[d][2].raised
        /\ notified[d][2].callback = data_callbacks[d][2]
        /\ cycle[d] = "completed"
        /\ pc[d] = "sleep"

-----------------------------------------------------------------------------
(* The loop of a domain *)

\* the task of d ends in this step
LoopEnds(d) == poll_tasks'[d] < poll_tasks[d]

\* an exception of the cycle reaches the except clause of the loop
CycleRaises(d) == pc[d] # "pause" /\ pc'[d] = "pause"

\* the task of d starts a cycle
CycleStarts(d) == polls'[d] = polls[d] + 1

\* C39: while polling is active the loop of a domain ends only through
\* cancellation or stop; an exception inside a cycle is contained: the task
\* lives on, pauses 5 seconds and then starts another cycle; every domain
\* is polled again and again for as long as polling is active; and no
\* cycle starts before last poll time + current interval of its domain.
C39_LoopKeepsPolling ==
    /\ [][\A d \in Domains :
             /\ LoopEnds(d) => (d \in cancel_requested /\ ~polling_active)
             /\ CycleRaises(d) =>
                   /\ poll_tasks'[d] = poll_tasks[d]
                   /\ polling_active'
                   /\ error_wake'[d] = now + 5
             /\ (pc[d] = "pause" /\ pc'[d] # "pause" /\ ~LoopEnds(d)) =>
                   (now >= error_wake[d] /\ pc'[d] = "sleep")
             /\ CycleStarts(d) =>
                   /\ polling_active
                   /\ now >= domain_states[d].last_poll_time
                                + domain_states[d].current_interval]_vars
    /\ \A d \in LoopDomains : \A n \in 0..(MaxPolls - 1) :
          (polling_active /\ polls[d] = n) ~> (polls[d] > n \/ ~polling_active)

\* a domain is in its third cycle after one that raised, polling was never
\* stopped, and the cycle began 5 seconds or more after the one before
C39_Witness ==
    \E d \in Domains :
        /\ polling_active
        /\ stops = 0
        /\ polls[d] >= 3
        /\ error_wake[d] > 0
        /\ pc[d] \in {"endpoint", "fetch", "update"}
        /\ now >= error_wake[d]

====
